---- MODULE Spec2Model ----
(***************************************************************************)
(* Command/response engine of the Atom element runtime                     *)
(* (languages/python/atom/element.py).                                     *)
(*                                                                         *)
(* One caller element issues command_send calls from several threads to    *)
(* callee elements, each of which may run a command_loop.  The backing     *)
(* server is modelled by its streams: an append assigns the id <ms>-<seq>  *)
(* from the server clock, a read returns the entries after a cursor.       *)
(*                                                                         *)
(* Time is the server/wall clock in milliseconds.  A thread that can take  *)
(* a step takes it before the clock advances (computation is fast next to  *)
(* the millisecond timeouts); the clock advances to the next grid point or *)
(* to the next moment a blocked read or a running handler ends.            *)
(***************************************************************************)
EXTENDS Integers, Sequences, FiniteSets, TLC

VARIABLES
    now,               \* the clock, ms
    response,          \* the stream response:<Caller>
    command,           \* callee -> the stream command:<callee>
    response_last_id,  \* Caller's shared cursor on response:<Caller>
    command_last_id,   \* callee -> cursor of its command loop
    calls,             \* call -> the locals of one command_send invocation
    loop,              \* callee -> the locals of its command_loop
    pool,              \* element -> pipelines in _rpipeline_pool
    alive,             \* element -> constructed and not torn down
    entries,           \* the stream stream:responder_0:test_stream
    written,           \* the entry_write call that was the last operation on it
    got,               \* the entry_read_n / entry_read_since call that was the last
    feeds,             \* stream name -> a stream an entry_read_loop listens to
    rl,                \* the locals of one entry_read_loop invocation
    sel,               \* the last serialization decision taken and its arguments
    refs,              \* reference key -> the value the server stores under it
    ref_el,            \* the element that owns the references: its script SHA
    ref_out,           \* the last reference_* call and what it returned
    health,            \* element -> what its version and healthcheck commands answer
    hw,                \* the locals of one wait_for_elements_healthy invocation
    handler_map,       \* command name -> handler registered on responder_0
    timeouts,          \* command name -> timeout registered on responder_0
    hm_out,            \* the last command_add / healthcheck_set call and its outcome
    pub,               \* responder_0's streams set and its keys on the server
    pub_out,           \* the last entry_write / clean_up_stream / __del__ and its outcome
    shutdown,          \* callee -> its _command_loop_shutdown event is set
    naming,            \* the last names given to the id functions and the keys made
    dec,               \* the last batch read and the codec used for each of its items
    pq                 \* the pipeline queue of one element and the threads that use it

\* the state of the command engine
cmd_vars == <<response, command, response_last_id, command_last_id,
              calls, loop, pool, alive>>
\* the state of the stream engine
entry_vars == <<entries, written, got>>
\* the state of the stream listener
read_vars == <<feeds, rl>>
\* the state of the serialization decisions
ser_vars == <<sel>>
\* the state of the references
ref_vars == <<refs, ref_el, ref_out>>
\* the state of the health wait
health_vars == <<health, hw>>
\* the state of the handler table
handler_vars == <<handler_map, timeouts, hm_out>>

\* the published streams of one element
pub_vars == <<pub, pub_out>>

\* the stop flags of the command loops
shut_vars == <<shutdown>>

\* the state of the naming functions
name_vars == <<naming>>

\* the state of the batch decoding
dec_vars == <<dec>>

pq_vars == <<pq>>

not_pq_vars == <<now, cmd_vars, entry_vars, read_vars, ser_vars, ref_vars,
                 health_vars, handler_vars, pub_vars, shut_vars, name_vars,
                 dec_vars>>

ext_vars == <<pub_vars, shut_vars, name_vars, dec_vars, pq_vars>>

aux_vars == <<read_vars, ser_vars, ref_vars, health_vars, handler_vars, ext_vars>>

vars == <<now, cmd_vars, entry_vars, aux_vars>>

----------------------------------------------------------------------------
\* Bounds of the model.

\* last clock value explored (ms)
MaxTime == 1001
\* distance between the moments at which the clock may stop without a timer
TickMs == 500
\* entries written to the stream of the stream engine
MaxEntries == 3
\* entries written to each stream of the stream listener
MaxFeedLen == 2
\* iterations of one entry_read_loop
MaxLoops == 3
\* reference keys created
MaxRefs == 2
\* the longest element or stream name
MaxNameLen == 2
\* the most entries or keys one read decodes
MaxBatch == 2
\* worker threads of the element (publishers, command_send callers, reference
\* calls, log) besides the one that is told apart
PoolThreads == 21
----------------------------------------------------------------------------
\* Program constants (atom/config.py).

ACK_TIMEOUT == 1000
RESPONSE_TIMEOUT == 1000
REDIS_PIPELINE_POOL_SIZE == 20
ATOM_NO_ERROR == 0
ATOM_COMMAND_NO_ACK == 3
ATOM_COMMAND_NO_RESPONSE == 4
ATOM_COMMAND_UNSUPPORTED == 6
ATOM_CALLBACK_FAILED == 7
ATOM_USER_ERRORS_BEGIN == 1000

----------------------------------------------------------------------------
\* The elements and the inputs of the scenario.

Caller == "test_caller"
Callees == {"responder_0", "responder_1"}
Elements == {Caller} \cup Callees
\* the threads of the caller element, each running one command_send
Calls == {1, 2}

\* command names sent
Cmds == {"add_1", "loop", "boom"}
\* payload of a call: each thread sends its own number
DataOf(c) == c
\* ack_timeout arguments of command_send
AckTimeouts == {ACK_TIMEOUT}

None == -1
NoId == <<0, 0>>

Max(a, b) == IF a >= b THEN a ELSE b

Min(S) == CHOOSE x \in S : \A y \in S : x <= y

----------------------------------------------------------------------------
\* Stream ids and the server's stream operations.

\* (ms, seq) order of two ids, as _update_response_id_if_older compares them
IdGreater(new_id, old_id) ==
    \/ new_id[1] > old_id[1]
    \/ (new_id[1] = old_id[1] /\ new_id[2] > old_id[2])

\* id the server assigns to the next entry of a stream
NextId(stream) ==
    IF stream = <<>> THEN <<now, 0>>
    ELSE LET last == stream[Len(stream)].id
         IN  IF now > last[1] THEN <<now, 0>> ELSE <<last[1], last[2] + 1>>

\* XADD: the stream with the entry appended under a fresh id
XAdd(stream, entry) == Append(stream, [entry EXCEPT !.id = NextId(stream)])

\* XREAD: the entries after the cursor, oldest first
XRead(stream, cursor) == SelectSeq(stream, LAMBDA e : IdGreater(e.id, cursor))

----------------------------------------------------------------------------
\* Frames.  "has" is the set of field names the entry carries.

Sentinel ==
    [id |-> NoId, has |-> {"language", "version"}, element |-> "", cmd |-> "",
     cmd_id |-> NoId, timeout |-> None, err_code |-> None, data |-> None]

\* a command frame that does not carry the name of the caller
CmdFrameWithoutCaller(caller, cmd_name, data) ==
    [id |-> NoId, has |-> {"element", "cmd", "data"}, element |-> "",
     cmd |-> cmd_name, cmd_id |-> NoId, timeout |-> None, err_code |-> None,
     data |-> data]

\* vars(Cmd(self.name, cmd_name, data))
CmdFrame(caller, cmd_name, data) ==
    [id |-> NoId, has |-> {"element", "cmd", "data"}, element |-> caller,
     cmd |-> cmd_name, cmd_id |-> NoId, timeout |-> None, err_code |-> None,
     data |-> data]

\* vars(Acknowledge(self.name, cmd_id, timeout))
AckFrame(callee, cmd_id, timeout) ==
    [id |-> NoId, has |-> {"element", "cmd_id", "timeout"}, element |-> callee,
     cmd |-> "", cmd_id |-> cmd_id, timeout |-> timeout, err_code |-> None,
     data |-> None]

\* vars(response) with cmd_id, element and cmd added
ResponseFrame(callee, cmd_name, cmd_id, resp) ==
    [id |-> NoId, has |-> {"element", "cmd", "cmd_id", "err_code", "err_str", "data"},
     element |-> callee, cmd |-> cmd_name, cmd_id |-> cmd_id, timeout |-> None,
     err_code |-> resp.err_code, data |-> resp.data]

----------------------------------------------------------------------------
\* The handler tables of a callee, as command_add filled them.

\* names in the handler_map of element r: responder_1 added "add_1" and "loop"
\* only
HandlerNames(r) ==
    IF r = "responder_0"
    THEN {"add_1", "loop", "boom", "fail", "ret_not_response"}
    ELSE {"add_1", "loop"}

\* self.timeouts[name]: "loop" was registered with a timeout of its own
Timeouts(name) == IF name = "loop" THEN 500 ELSE RESPONSE_TIMEOUT

\* what the registered handler does when invoked
HandlerKind(name) ==
    CASE name = "loop" -> "never_returns"
      [] name = "boom" -> "raises"
      [] OTHER -> "returns"

\* what a returning handler returns: add_1 a Response with its argument plus
\* one, fail a Response whose err_code is its argument, ret_not_response a
\* value that is not a Response
HandlerResponse(name, data) ==
    CASE name = "add_1" -> [is_response |-> TRUE, err_code |-> 0, data |-> data + 1]
      [] name = "fail" -> [is_response |-> TRUE, err_code |-> data, data |-> None]
      [] OTHER -> [is_response |-> FALSE, err_code |-> None, data |-> None]

----------------------------------------------------------------------------
\* Element helpers.

\* _update_response_id_if_older without the comparison of the two ids
UpdateResponseIdAlways(global_id, new_id) == new_id

\* _update_response_id_if_older that stores the id after the one it is given
UpdateResponseIdPast(global_id, new_id) == <<new_id[1], new_id[2] + 1>>

\* _update_response_id_if_older: the shared cursor after the call
UpdateResponseIdIfOlder(global_id, new_id) ==
    IF IdGreater(new_id, global_id) THEN new_id ELSE global_id

\* the acknowledge test of command_send's first loop
IsAck(entry, element_name, cmd_id) ==
    /\ "element" \in entry.has /\ entry.element = element_name
    /\ "cmd_id" \in entry.has /\ entry.cmd_id = cmd_id
    /\ "timeout" \in entry.has

\* IsResponse without the comparison of the element field
IsResponseAnyElement(entry, element_name, cmd_id) ==
    /\ "cmd_id" \in entry.has /\ entry.cmd_id = cmd_id
    /\ "err_code" \in entry.has

\* the response test of command_send's second loop
IsResponse(entry, element_name, cmd_id) ==
    /\ "element" \in entry.has /\ entry.element = element_name
    /\ "cmd_id" \in entry.has /\ entry.cmd_id = cmd_id
    /\ "err_code" \in entry.has

\* block argument of the reads of command_send
BlockMs(timeout, elapsed_time_ms) == Max(timeout - elapsed_time_ms, 1)

\* a read of command_send that passes the shared cursor to xread
ReadCursorShared(c) == response_last_id

\* the cursor a read of command_send passes to xread
ReadCursor(c) == calls[c].local_last_id

\* log(): takes a pipeline, appends to "log", puts the pipeline back; the
\* entries of "log" are not part of the state
CanLog(e) == pool[e] > 0

\* the reply of the acknowledge timeout with the code of the response timeout
NoAckResponseAsNoResponse == [err_code |-> ATOM_COMMAND_NO_RESPONSE, data |-> None]

\* vars(Response(err_code=ATOM_COMMAND_NO_ACK, ...))
NoAckResponse == [err_code |-> ATOM_COMMAND_NO_ACK, data |-> None]

\* vars(Response(err_code=ATOM_COMMAND_NO_RESPONSE, ...))
NoResponseResponse == [err_code |-> ATOM_COMMAND_NO_RESPONSE, data |-> None]

NoResp == [err_code |-> None, data |-> None]

IdleCall ==
    [pc |-> "idle", callee |-> "", cmd |-> "", data |-> None,
     ack_timeout |-> None, local_last_id |-> NoId, cmd_id |-> NoId,
     timeout |-> None, start_read |-> 0, elapsed_time_ms |-> 0, wake |-> 0,
     msgs |-> <<>>, resp |-> NoResp]

\* the last operation on the stream was not an entry_write
NoWrite ==
    [status |-> "none", fields |-> {}, tag |-> "none", id |-> NoId, before |-> 0]

\* the last operation on the stream was not a read
NoRead ==
    [op |-> "none", n |-> None, last_id |-> NoId, tag |-> "none", force |-> FALSE,
     after |-> NoWrite, result |-> <<>>]

\* the streams the listener subscribes to, in the order of stream_handlers
FeedNames == <<"stream_0", "stream_1">>

Feeds == {FeedNames[i] : i \in DOMAIN FeedNames}

\* entry_read_loop not called yet.  str_cursor and bytes_cursor are the items
\* of the dict `streams`: those under the str keys the loop starts with, and
\* those under the bytes keys of the replies, in insertion order.  Ghosts:
\* base (length of each stream when the cursors were taken), sent (the
\* cursors of the last xread), last_at_read (per stream, the id last
\* dispatched before that xread), dispatched (the handler calls made).
IdleReadLoop ==
    [pc |-> "off", n_loops |-> None, timeout |-> 0, done |-> 0, wake |-> 0,
     str_cursor |-> [f \in Feeds |-> NoId], bytes_cursor |-> <<>>,
     base |-> [f \in Feeds |-> 0], sent |-> <<>>,
     last_at_read |-> [f \in Feeds |-> NoId], dispatched |-> <<>>]

\* a reference key that holds nothing.  Ghosts: orig (the value given to
\* reference_create), created (the time of the SET), timeout_ms (its
\* argument), extended (reference_update_timeout_ms changed the expiry)
NoRef ==
    [present |-> FALSE, ser |-> "none", field |-> "", stored |-> 0, when |-> None,
     orig |-> 0, created |-> 0, timeout_ms |-> 0, extended |-> FALSE]

\* no reference_* call made yet.  Ghosts: at (the time of the call), existed
\* (whether each key existed when the call started), acquired (a pipeline
\* was taken), made (keys set)
NoRefOut ==
    [op |-> "none", uuids |-> <<>>, timeout_ms |-> 0, force |-> FALSE,
     status |-> "none", result |-> <<>>, at |-> 0, existed |-> <<>>,
     acquired |-> FALSE, made |-> 0]

\* the element_list argument of wait_for_elements_healthy
HealthNames == <<"responder_0", "responder_1">>

\* what a round of the health wait has seen of one element (ghost): whether
\* its version was probed and passed, whether a healthcheck was sent to it,
\* the code its healthcheck handler returned and the err_code that arrived
NotProbed ==
    [probed |-> FALSE, version_ok |-> FALSE, hc_sent |-> FALSE,
     hc_code |-> 0, hc_err |-> 0]

\* wait_for_elements_healthy not called yet.  Ghosts: round, seen, slept_at
\* (the time the last sleep began), began (the time the round began)
IdleHealthWait ==
    [pc |-> "off", strict |-> FALSE, idx |-> 1, all_healthy |-> TRUE,
     wake |-> 0, round |-> 0, slept_at |-> 0, began |-> 0,
     seen |-> [e \in Callees |-> NotProbed]]

\* no serialization decision taken yet
NoSel ==
    [op |-> "none", serialization |-> "None", legacy |-> "unset",
     ser_key |-> "absent", force |-> FALSE, deserialize |-> "unset",
     used |-> "None"]

\* invoked: the ids of the commands for which a handler was called.  Ghosts:
\* read_after and acked_after, the entries read and the commands
\* acknowledged since the stop flag was set
IdleLoop ==
    [pc |-> "off", cmd_id |-> NoId, caller |-> "", cmd_name |-> "",
     data |-> None, timeout |-> None, invoked |-> {}, read_after |-> 0,
     acked_after |-> 0]

----------------------------------------------------------------------------
\* The handler table and the timeout table of one element, responder_0, as
\* command_add and healthcheck_set change them.  A handler is named by a
\* string; "not_callable" is an argument that is not callable and "absent"
\* marks a name the table does not hold.

HEALTHCHECK_COMMAND == "healthcheck"
VERSION_COMMAND == "version"
COMMAND_LIST_COMMAND == "command_list"

\* self.reserved_commands
reserved_commands == {COMMAND_LIST_COMMAND, VERSION_COMMAND, HEALTHCHECK_COMMAND}

\* the names command_add is called with
AddNames == reserved_commands \cup {"add_1", "loop"}
\* the handler arguments of command_add
AddHandlers == {"h1", "not_callable"}
\* the handler arguments of healthcheck_set
HealthcheckHandlers == {"h1", "h2", "not_callable"}
\* the timeout arguments of command_add
AddTimeouts == {RESPONSE_TIMEOUT, 500}
\* the serialization arguments of command_add
AddSerializations == {"msgpack", "bogus"}
\* the deserialize arguments of command_add
AddDeserialize == {"unset", "false"}

NoHandler == [handler |-> "absent", serialization |-> "None"]
\* no timeout registered under the name
NoTimeout == 0

\* `k in self.handler_map`
HandlerMapKeys(m) == {n \in AddNames : m[n] # NoHandler}

\* callable(handler)
Callable(handler) == handler # "not_callable"

\* ser.is_valid_serialization(serialization)
IsValidSerialization(serialization) == serialization \in {"None", "none", "msgpack"}

\* a reserved name is always free to take
ReservedTakenNever(m, name) == FALSE

\* `name in self.reserved_commands and name in self.handler_map`
ReservedTaken(m, name) ==
    name \in reserved_commands /\ name \in HandlerMapKeys(m)

\* `self.handler_map[name] = {"handler": handler, "serialization": serialization}`
PutHandler(m, name, handler, serialization) ==
    [m EXCEPT ![name] = [handler |-> handler, serialization |-> serialization]]

\* `self.timeouts[name] = timeout`
PutTimeout(t, name, timeout) == [t EXCEPT ![name] = timeout]

\* the tables after Element.__init__: healthcheck_set with the default
\* handler, then command_add of version and of command_list
ConstructedHandlerMap ==
    PutHandler(
        PutHandler(
            PutHandler([n \in AddNames |-> NoHandler],
                       HEALTHCHECK_COMMAND, "default_healthcheck", "None"),
            VERSION_COMMAND, "version_handler", "None"),
        COMMAND_LIST_COMMAND, "command_list_handler", "None")

ConstructedTimeouts ==
    PutTimeout(
        PutTimeout(
            PutTimeout([n \in AddNames |-> NoTimeout],
                       HEALTHCHECK_COMMAND, RESPONSE_TIMEOUT),
            VERSION_COMMAND, RESPONSE_TIMEOUT),
        COMMAND_LIST_COMMAND, RESPONSE_TIMEOUT)

\* no call on the tables yet.  Ghosts: before_map and before_timeouts (the
\* tables when the call began), added (the names command_add has registered)
NoHandlerCall ==
    [op |-> "none", name |-> "", handler |-> "", timeout |-> 0,
     serialization |-> "None", status |-> "none", reply |-> {},
     before_map |-> ConstructedHandlerMap,
     before_timeouts |-> ConstructedTimeouts,
     added |-> {VERSION_COMMAND, COMMAND_LIST_COMMAND}]

----------------------------------------------------------------------------
\* The streams one element, responder_0, has published, and its keys on the
\* server.  published[s] is the length of stream:<E>:s, 0 when the key does
\* not exist; own is the set of the keys response:<E> and command:<E> that
\* exist.  Ghost: wrote, the names written by an entry_write that went
\* through and not removed since.

\* the stream_name arguments
PubNames == {"clean_me", "other"}

\* the element after __init__
ConstructedPub ==
    [streams |-> {}, published |-> [s \in PubNames |-> 0],
     own |-> {"response", "command"}, deleted |-> FALSE, wrote |-> {}]

\* no call yet.  Ghosts: before (pub when the call began), held (pipelines
\* the call holds when it ends)
NoPubCall ==
    [op |-> "none", stream |-> "", status |-> "none", before |-> ConstructedPub,
     held |-> 0]

----------------------------------------------------------------------------
\* Names and keys.  A name is a string, a sequence of characters; a key is
\* the word of its kind, followed by ":" and the characters of the names.

\* the characters of the names
NameChars == {"a", ":"}

RECURSIVE StringsOf(_)
\* the strings of length n
StringsOf(n) ==
    IF n = 0 THEN {<<>>}
    ELSE {Append(w, ch) : w \in StringsOf(n - 1), ch \in NameChars}

\* the names given: the strings of 1 to MaxNameLen characters
Names == UNION {StringsOf(n) : n \in 1..MaxNameLen}

\* no id function called yet
NoNaming ==
    [op |-> "none", element |-> <<>>, stream |-> <<>>, element_2 |-> <<>>,
     stream_2 |-> <<>>, command_id |-> <<>>, response_id |-> <<>>,
     stream_id |-> <<>>, command_id_2 |-> <<>>, response_id_2 |-> <<>>,
     stream_id_2 |-> <<>>, all_elements |-> {}]

\* no read decoded yet
NoDec ==
    [op |-> "none", keys |-> <<>>, serialization |-> "None", force |-> FALSE,
     deserialize |-> "unset", used |-> <<>>]

----------------------------------------------------------------------------
\* Element.__init__ of every element has run at time 1: each stream holds its
\* discovery sentinel and each cursor is the sentinel's id.

\* the pool after __init__ has filled it; no thread uses it yet.  free: the
\* pipelines in the queue; hold, wait: the worker threads that hold a pipeline
\* and that are blocked in get(); me: one more worker thread, told apart from
\* the others; loop: where the command_loop thread is
ConstructedQueue ==
    [free |-> REDIS_PIPELINE_POOL_SIZE, hold |-> 0, wait |-> 0, me |-> "idle",
     loop |-> "read"]

\* what is not the command streams
InitRest ==
    /\ now = 1
    /\ response = <<[Sentinel EXCEPT !.id = <<1, 0>>]>>
    /\ response_last_id = <<1, 0>>
    /\ calls = [c \in Calls |-> IdleCall]
    /\ loop = [r \in Callees |-> IdleLoop]
    /\ pool = [e \in Elements |-> REDIS_PIPELINE_POOL_SIZE]
    /\ alive = [e \in Elements |-> TRUE]
    /\ entries = <<>>
    /\ written = NoWrite
    /\ got = NoRead
    /\ feeds = [f \in Feeds |-> <<>>]
    /\ rl = IdleReadLoop
    /\ sel = NoSel
    /\ refs = [u \in 1..MaxRefs |-> NoRef]
    /\ ref_el = [constructed |-> FALSE, sha |-> "None", next_uuid |-> 1]
    /\ ref_out = NoRefOut
    /\ health = [of |-> [e \in Callees |-> "down"], settled |-> FALSE]
    /\ hw = IdleHealthWait
    /\ handler_map = ConstructedHandlerMap
    /\ timeouts = ConstructedTimeouts
    /\ hm_out = NoHandlerCall
    /\ pub = ConstructedPub
    /\ pub_out = NoPubCall
    /\ shutdown = [r \in Callees |-> FALSE]
    /\ naming = NoNaming
    /\ dec = NoDec
    /\ pq = ConstructedQueue

Init ==
    /\ InitRest
    /\ command = [r \in Callees |-> <<[Sentinel EXCEPT !.id = <<1, 0>>]>>]
    /\ command_last_id = [r \in Callees |-> <<1, 0>>]

\* as Init, with a command that was sent to each callee before the callee
\* was constructed: __init__ appended the sentinel after it and took the id
\* of the sentinel as cursor
LateInit ==
    /\ InitRest
    /\ command = [r \in Callees |->
                    <<[CmdFrame(Caller, "add_1", 1) EXCEPT !.id = <<1, 0>>],
                      [Sentinel EXCEPT !.id = <<1, 1>>]>>]
    /\ command_last_id = [r \in Callees |-> <<1, 1>>]

----------------------------------------------------------------------------
\* command_send.

\* head of the response loop: the time check, then the blocking read is issued
RespLoopHead(rec) ==
    LET elapsed == now - rec.start_read
    IN  IF elapsed >= rec.timeout
        THEN [rec EXCEPT !.elapsed_time_ms = elapsed, !.pc = "done",
                         !.resp = NoResponseResponse]
        ELSE [rec EXCEPT !.elapsed_time_ms = elapsed, !.pc = "resp_read",
                         !.wake = now + BlockMs(rec.timeout, elapsed)]

\* the cursor snapshot and the arguments of the call
\* (the threads are alike: they are numbered in the order they begin)
SendSnapshot(c, element_name, cmd_name, data, ack_timeout) ==
    /\ alive[Caller]
    /\ calls[c].pc = "idle"
    /\ \A d \in Calls : d < c => calls[d].pc # "idle"
    /\ calls' = [calls EXCEPT ![c] =
                   [@ EXCEPT !.pc = "post", !.callee = element_name,
                             !.cmd = cmd_name, !.data = data,
                             !.ack_timeout = ack_timeout,
                             !.local_last_id = response_last_id]]
    /\ UNCHANGED <<aux_vars, alive, entry_vars, now, response, command, response_last_id, command_last_id,
                   loop, pool>>

\* the command is appended to command:<callee>; the acknowledge wait begins
SendPost(c) ==
    LET rec == calls[c]
    IN  /\ rec.pc = "post"
        /\ pool[Caller] > 0
        /\ command' = [command EXCEPT ![rec.callee] =
                          XAdd(@, CmdFrame(Caller, rec.cmd, rec.data))]
        /\ calls' = [calls EXCEPT ![c] =
                       [@ EXCEPT !.pc = "ack_read",
                                 !.cmd_id = NextId(command[rec.callee]),
                                 !.start_read = now,
                                 !.elapsed_time_ms = 0,
                                 !.wake = now + BlockMs(rec.ack_timeout, 0)]]
        /\ UNCHANGED <<aux_vars, alive, entry_vars, now, response, response_last_id, command_last_id,
                       loop, pool>>

\* the acknowledge read timed out with nothing to read
AckReadEmpty(c) ==
    LET rec == calls[c]
        elapsed == now - rec.start_read
    IN  /\ rec.pc = "ack_read"
        /\ XRead(response, ReadCursor(c)) = <<>>
        /\ now >= rec.wake
        /\ IF elapsed >= rec.ack_timeout
           THEN /\ CanLog(Caller)
                /\ calls' = [calls EXCEPT ![c] =
                               [@ EXCEPT !.elapsed_time_ms = elapsed,
                                         !.pc = "done", !.resp = NoAckResponse]]
           ELSE /\ calls' = [calls EXCEPT ![c] =
                               [@ EXCEPT !.elapsed_time_ms = elapsed,
                                         !.wake = now + BlockMs(rec.ack_timeout, elapsed)]]
        /\ UNCHANGED <<aux_vars, alive, entry_vars, now, response, command, response_last_id,
                       command_last_id, loop, pool>>

\* the acknowledge read returned entries
AckReadMsgs(c) ==
    LET rec == calls[c]
        msgs == XRead(response, ReadCursor(c))
    IN  /\ rec.pc = "ack_read"
        /\ msgs # <<>>
        /\ calls' = [calls EXCEPT ![c] = [@ EXCEPT !.pc = "ack_for", !.msgs = msgs]]
        /\ UNCHANGED <<aux_vars, alive, entry_vars, now, response, command, response_last_id,
                       command_last_id, loop, pool>>

\* one pass of the for loop over the entries read in the acknowledge phase
AckForMsg(c) ==
    LET rec == calls[c]
        m == Head(rec.msgs)
        rest == Tail(rec.msgs)
        seen == [rec EXCEPT !.local_last_id = m.id]
    IN  /\ rec.pc = "ack_for"
        /\ IF IsAck(m, rec.callee, rec.cmd_id)
           THEN LET next == RespLoopHead([seen EXCEPT !.timeout = m.timeout,
                                                      !.msgs = <<>>,
                                                      !.start_read = now])
                IN  /\ next.pc = "done" => CanLog(Caller)
                    /\ calls' = [calls EXCEPT ![c] = next]
                    /\ UNCHANGED response_last_id
           ELSE /\ response_last_id' = UpdateResponseIdIfOlder(response_last_id, m.id)
                /\ calls' = [calls EXCEPT ![c] =
                               IF rest # <<>>
                               THEN [seen EXCEPT !.msgs = rest]
                               ELSE [seen EXCEPT !.msgs = <<>>, !.pc = "ack_read",
                                       !.wake = now + BlockMs(rec.ack_timeout,
                                                              rec.elapsed_time_ms)]]
        /\ UNCHANGED <<aux_vars, alive, entry_vars, now, response, command, command_last_id, loop, pool>>

\* index of the first entry of msgs that is the response of the call, or 0
FirstResponse(msgs, element_name, cmd_id) ==
    LET hits == {i \in 1..Len(msgs) : IsResponse(msgs[i], element_name, cmd_id)}
    IN  IF hits = {} THEN 0 ELSE Min(hits)

\* the response read timed out with nothing to read
RespReadEmpty(c) ==
    LET rec == calls[c]
    IN  /\ rec.pc = "resp_read"
        /\ XRead(response, ReadCursor(c)) = <<>>
        /\ now >= rec.wake
        /\ CanLog(Caller)
        /\ calls' = [calls EXCEPT ![c] =
                       [@ EXCEPT !.pc = "done", !.resp = NoResponseResponse]]
        /\ UNCHANGED <<aux_vars, alive, entry_vars, now, response, command, response_last_id,
                       command_last_id, loop, pool>>

\* the response read returned entries: the for loop, the cursor update, the
\* return or the next pass of the while loop
RespReadMsgs(c) ==
    LET rec == calls[c]
        msgs == XRead(response, ReadCursor(c))
        i == FirstResponse(msgs, rec.callee, rec.cmd_id)
        last == IF i = 0 THEN msgs[Len(msgs)] ELSE msgs[i]
        seen == [rec EXCEPT !.local_last_id = last.id]
        next == IF i = 0
                THEN RespLoopHead(seen)
                ELSE [seen EXCEPT !.pc = "done",
                                  !.resp = [err_code |-> last.err_code,
                                            data |-> last.data]]
    IN  /\ rec.pc = "resp_read"
        /\ msgs # <<>>
        /\ next.pc = "done" /\ next.resp.err_code # ATOM_NO_ERROR => CanLog(Caller)
        /\ response_last_id' = UpdateResponseIdIfOlder(response_last_id, last.id)
        /\ calls' = [calls EXCEPT ![c] = next]
        /\ UNCHANGED <<aux_vars, alive, entry_vars, now, response, command, command_last_id, loop, pool>>

----------------------------------------------------------------------------
\* command_loop.

\* the timeout the acknowledge carries
AckTimeoutOf(r, cmd_name) ==
    IF cmd_name \notin HandlerNames(r) THEN RESPONSE_TIMEOUT ELSE Timeouts(cmd_name)

\* the acknowledge queued on the pipeline and not flushed
WriteAcknowledgeUnflushed(stream, callee, cmd_id, timeout) == stream

\* the acknowledge is appended to response:<caller> and flushed
WriteAcknowledge(stream, callee, cmd_id, timeout) ==
    XAdd(stream, AckFrame(callee, cmd_id, timeout))

\* the shift applied to every err_code, 0 included
ShiftErrCodeAlways(err_code) == err_code + ATOM_USER_ERRORS_BEGIN

\* the err_code of a handler's Response as it is transmitted
ShiftErrCode(err_code) ==
    IF err_code # 0 THEN err_code + ATOM_USER_ERRORS_BEGIN ELSE err_code

\* the loop never looks at its stop flag
ShutdownIsSetNever(r) == FALSE

\* self._command_loop_shutdown.isSet()
ShutdownIsSet(r) == shutdown[r]

\* `while not self._command_loop_shutdown.isSet()`: the loop goes on to the
\* blocking read, or returns
WhileTest(r) == IF ShutdownIsSet(r) THEN "exited" ELSE "read"

\* 1 while the stop flag of r is set (ghost)
AfterFlag(r) == IF shutdown[r] THEN 1 ELSE 0

\* the user starts command_loop on its own thread
LoopStart(r) ==
    /\ alive[r]
    /\ loop[r].pc = "off"
    /\ loop' = [loop EXCEPT ![r] = [@ EXCEPT !.pc = WhileTest(r)]]
    /\ UNCHANGED <<aux_vars, alive, entry_vars, now, response, command, response_last_id, command_last_id,
                   calls, pool>>

\* the cursor of the loop stays where it is
CommandLastIdKept(r, m) == command_last_id[r]

\* `self.command_last_id = cmd_id.decode()`
CommandLastId(r, m) == m.id

\* the oldest new command is read and acknowledged
LoopReadAck(r) ==
    LET msgs == XRead(command[r], command_last_id[r])
        m == msgs[1]
    IN  /\ loop[r].pc = "read"
        /\ msgs # <<>>
        /\ command_last_id' = [command_last_id EXCEPT ![r] = CommandLastId(r, m)]
        /\ IF ~({"element", "cmd", "data"} \subseteq m.has)
           THEN /\ loop' = [loop EXCEPT ![r] =
                              [@ EXCEPT !.pc = WhileTest(r),
                                        !.read_after = @ + AfterFlag(r)]]
                /\ UNCHANGED <<pool, response>>
           ELSE IF m.element = ""
           THEN /\ CanLog(r)
                /\ loop' = [loop EXCEPT ![r] =
                              [@ EXCEPT !.pc = WhileTest(r),
                                        !.read_after = @ + AfterFlag(r)]]
                /\ UNCHANGED <<pool, response>>
           ELSE /\ pool[r] > 0
                /\ pool' = [pool EXCEPT ![r] = @ - 1]
                /\ response' = WriteAcknowledge(response, r, m.id, AckTimeoutOf(r, m.cmd))
                /\ loop' = [loop EXCEPT ![r] =
                              [pc |-> "dispatch", cmd_id |-> m.id,
                               caller |-> m.element, cmd_name |-> m.cmd,
                               data |-> m.data, timeout |-> AckTimeoutOf(r, m.cmd),
                               invoked |-> loop[r].invoked,
                               read_after |-> loop[r].read_after + AfterFlag(r),
                               acked_after |-> loop[r].acked_after + AfterFlag(r)]]
        /\ UNCHANGED <<aux_vars, alive, entry_vars, now, command, response_last_id, calls>>

\* the Response of an unsupported command with the user shift applied
UnsupportedResponseShifted ==
    [err_code |-> ATOM_COMMAND_UNSUPPORTED + ATOM_USER_ERRORS_BEGIN, data |-> None]

\* Response(err_code=ATOM_COMMAND_UNSUPPORTED, ...)
UnsupportedResponse == [err_code |-> ATOM_COMMAND_UNSUPPORTED, data |-> None]

\* the shift applied after the type check, to CALLBACK_FAILED as well
TransmittedResponseShiftLast(ret) ==
    LET resp == IF ret.is_response
                THEN [err_code |-> ret.err_code, data |-> ret.data]
                ELSE [err_code |-> ATOM_CALLBACK_FAILED, data |-> None]
    IN  [resp EXCEPT !.err_code = ShiftErrCode(@)]

\* what the loop makes of the value a handler returned
TransmittedResponse(ret) ==
    IF ret.is_response
    THEN [err_code |-> ShiftErrCode(ret.err_code), data |-> ret.data]
    ELSE [err_code |-> ATOM_CALLBACK_FAILED, data |-> None]

\* the response is appended to response:<caller>, the pipeline is put back
LoopRespond(r, resp, invoked) ==
    /\ response' = XAdd(response,
                        ResponseFrame(r, loop[r].cmd_name, loop[r].cmd_id, resp))
    /\ pool' = [pool EXCEPT ![r] = @ + 1]
    /\ loop' = [loop EXCEPT ![r] =
                  [IdleLoop EXCEPT !.pc = WhileTest(r), !.invoked = invoked,
                                   !.read_after = loop[r].read_after,
                                   !.acked_after = loop[r].acked_after]]

\* the acknowledged command is dispatched
LoopDispatch(r) ==
    LET cur == loop[r]
        called == cur.invoked \cup {cur.cmd_id}
    IN  /\ cur.pc = "dispatch"
        /\ \/ /\ cur.cmd_name \notin HandlerNames(r)
              /\ CanLog(r)
              /\ LoopRespond(r, UnsupportedResponse, cur.invoked)
           \/ /\ cur.cmd_name \in HandlerNames(r)
              /\ HandlerKind(cur.cmd_name) = "returns"
              /\ LoopRespond(r,
                     TransmittedResponse(HandlerResponse(cur.cmd_name, cur.data)),
                     called)
           \/ /\ cur.cmd_name \in HandlerNames(r)
              /\ HandlerKind(cur.cmd_name) = "raises"
              /\ loop' = [loop EXCEPT ![r] =
                            [@ EXCEPT !.pc = "raised", !.invoked = called]]
              /\ UNCHANGED <<response, pool>>
           \/ /\ cur.cmd_name \in HandlerNames(r)
              /\ HandlerKind(cur.cmd_name) = "never_returns"
              /\ loop' = [loop EXCEPT ![r] =
                            [@ EXCEPT !.pc = "handler", !.invoked = called]]
              /\ UNCHANGED <<response, pool>>
        /\ UNCHANGED <<aux_vars, alive, entry_vars, now, command, response_last_id,
                       command_last_id, calls>>

----------------------------------------------------------------------------
\* The clock.

\* a thread that can take a step now
CallRunnable(c) ==
    \/ calls[c].pc \in {"post", "ack_for"}
    \/ /\ calls[c].pc \in {"ack_read", "resp_read"}
       /\ (XRead(response, ReadCursor(c)) # <<>> \/ now >= calls[c].wake)

LoopRunnable(r) ==
    \/ loop[r].pc = "dispatch"
    \/ loop[r].pc = "read" /\ XRead(command[r], command_last_id[r]) # <<>>

\* the moments at which a blocked read ends
Timers ==
    {calls[c].wake : c \in {d \in Calls : calls[d].pc \in {"ack_read", "resp_read"}}}

NextGrid == ((now - 1) \div TickMs + 1) * TickMs + 1

Tick ==
    LET t == Min({NextGrid} \cup {w \in Timers : w > now})
    IN  /\ \A c \in Calls : ~CallRunnable(c)
        /\ \A r \in Callees : ~LoopRunnable(r)
        /\ t <= MaxTime
        /\ now' = t
        /\ UNCHANGED <<aux_vars, alive, entry_vars, response, command, response_last_id,
                       command_last_id, calls, loop, pool>>

----------------------------------------------------------------------------

Next ==
    \/ \E c \in Calls, r \in Callees, n \in Cmds, a \in AckTimeouts :
          SendSnapshot(c, r, n, DataOf(c), a)
    \/ \E c \in Calls : SendPost(c)
    \/ \E c \in Calls : AckReadEmpty(c)
    \/ \E c \in Calls : AckReadMsgs(c)
    \/ \E c \in Calls : AckForMsg(c)
    \/ \E c \in Calls : RespReadEmpty(c)
    \/ \E c \in Calls : RespReadMsgs(c)
    \/ \E r \in Callees : LoopStart(r)
    \/ \E r \in Callees : LoopReadAck(r)
    \/ \E r \in Callees : LoopDispatch(r)
    \/ Tick

Spec == Init /\ [][Next]_vars

\* The stream engine: entry_write, entry_read_n and entry_read_since on one
\* stream.  A field map is a set of <<name, value>> pairs with distinct names.
\* A value is [t, v, packed]: the int v (t = "int") or the bytes of the decimal
\* text of v (t = "bytes"); packed marks the bytes of its msgpack encoding.

\* serialization tags
Tags == {"none", "msgpack"}

Int9 == [t |-> "int", v |-> 9, packed |-> FALSE]
Bytes9 == [t |-> "bytes", v |-> 9, packed |-> FALSE]

\* the field names the spec lists as reserved
SpecReservedNames ==
    {"element", "cmd", "cmd_id", "err_code", "err_str", "timeout", "ser", "data", "id"}

\* messages.ENTRY_RESERVED_KEYS: the names of the spec but "data", which the
\* tests write with entry_write and read back
ENTRY_RESERVED_KEYS == SpecReservedNames \ {"data"}

\* the field_data_map and serialization arguments of the entry_write calls
Writes ==
    {<<{<<"x", Int9>>}, "none">>, <<{<<"x", Int9>>}, "msgpack">>,
     <<{<<"data", Bytes9>>}, "none">>,
     <<{<<"x", Int9>>, <<"ser", Bytes9>>}, "msgpack">>}
        \cup {<<{<<k, Bytes9>>}, "none">> : k \in ENTRY_RESERVED_KEYS}

\* the serialization and force_serialization arguments of the entry_read_n calls
ReadModes == {<<"none", FALSE>>, <<"msgpack", FALSE>>, <<"msgpack", TRUE>>}

\* ser.serialize(v, method): "none" is the identity, "msgpack" packs
Serialize(v, method) ==
    IF method = "msgpack" THEN [v EXCEPT !.packed = TRUE] ELSE v

\* the bytes the client sends for a field value: bytes as they are, an int as
\* its decimal text
RedisEncode(v) ==
    IF v.t = "int" /\ ~v.packed THEN [v EXCEPT !.t = "bytes"] ELSE v

\* _deserialize_entry on one value: ser.deserialize, and the raw bytes when it
\* raises
DeserializeField(b, method) ==
    IF method = "msgpack" /\ b.packed THEN [b EXCEPT !.packed = FALSE] ELSE b

\* no field name is checked
HasReservedKeyNever(fields) == FALSE

\* whether a field map holds a reserved name
HasReservedKey(fields) == \E kv \in fields : kv[1] \in ENTRY_RESERVED_KEYS

\* the entry as entry_write appends it: the values serialized, "ser" added
EntryOf(fields, tag) ==
    [id |-> NoId, ser |-> tag,
     fields |-> {<<kv[1], RedisEncode(Serialize(kv[2], tag))>> : kv \in fields}]

\* _get_serialization_method for an entry that carries "ser"
GetSerializationMethod(e, user_serialization, force_serialization) ==
    IF ~force_serialization THEN e.ser ELSE user_serialization

\* an entry as the server holds it: decoded, not deserialized
ReadEntryRaw(e, user_serialization, force_serialization) ==
    [id |-> e.id, ser |-> IF force_serialization THEN e.ser ELSE "",
     fields |-> e.fields]

\* an entry as the reads return it: decoded, deserialized, the id attached
\* ("ser" is popped unless the user's serialization is forced)
ReadEntry(e, user_serialization, force_serialization) ==
    LET method == GetSerializationMethod(e, user_serialization, force_serialization)
    IN  [id |-> e.id,
         ser |-> IF force_serialization THEN e.ser ELSE "",
         fields |-> {<<kv[1], DeserializeField(kv[2], method)>> : kv \in e.fields}]

\* XRANGE with COUNT n: the n oldest entries, oldest first
XRangeOldestFirst(stream, n) ==
    [i \in 1..(IF n < Len(stream) THEN n ELSE Len(stream)) |-> stream[i]]

\* XREVRANGE with COUNT n: the n newest entries, newest first
XRevRange(stream, n) ==
    [i \in 1..(IF n < Len(stream) THEN n ELSE Len(stream)) |->
        stream[Len(stream) - i + 1]]

\* XREAD that also returns the entry at the cursor
XReadCountInclusive(stream, last_id, n) ==
    LET after == SelectSeq(stream, LAMBDA e : ~IdGreater(last_id, e.id))
    IN  IF n = None \/ n >= Len(after) THEN after ELSE SubSeq(after, 1, n)

\* XREAD with COUNT n (None: no COUNT): the oldest n entries after the cursor
XReadCount(stream, last_id, n) ==
    LET after == XRead(stream, last_id)
    IN  IF n = None \/ n >= Len(after) THEN after ELSE SubSeq(after, 1, n)

\* entry_write(stream_name, field_data_map, serialization=tag)
EntryWrite(fields, tag) ==
    LET new == XAdd(entries, EntryOf(fields, tag))
    IN  /\ Len(entries) < MaxEntries
        /\ IF HasReservedKey(fields)
           THEN /\ written' = [status |-> "ValueError", fields |-> fields,
                               tag |-> tag, id |-> NoId, before |-> Len(entries)]
                /\ UNCHANGED entries
           ELSE /\ pool["responder_0"] > 0
                /\ entries' = new
                /\ written' = [status |-> "ok", fields |-> fields, tag |-> tag,
                               id |-> new[Len(new)].id, before |-> Len(entries)]
        /\ got' = NoRead
        /\ UNCHANGED <<aux_vars, alive, now, response, command, response_last_id,
                       command_last_id, calls, loop, pool>>

\* entry_read_n(element_name, stream_name, n, serialization, force_serialization)
EntryReadN(n, serialization, force_serialization) ==
    /\ got' = [op |-> "read_n", n |-> n, last_id |-> NoId, tag |-> serialization,
               force |-> force_serialization,
               after |-> IF written.status = "ok" THEN written ELSE NoWrite,
               result |-> [i \in DOMAIN XRevRange(entries, n) |->
                              ReadEntry(XRevRange(entries, n)[i], serialization,
                                        force_serialization)]]
    /\ written' = NoWrite
    /\ UNCHANGED <<aux_vars, alive, entries, now, response, command, response_last_id,
                   command_last_id, calls, loop, pool>>

\* entry_read_since(element_name, stream_name, last_id, n)
EntryReadSince(last_id, n) ==
    /\ got' = [op |-> "read_since", n |-> n, last_id |-> last_id, tag |-> "none",
               force |-> FALSE,
               after |-> IF written.status = "ok" THEN written ELSE NoWrite,
               result |-> [i \in DOMAIN XReadCount(entries, last_id, n) |->
                              ReadEntry(XReadCount(entries, last_id, n)[i],
                                        "none", FALSE)]]
    /\ written' = NoWrite
    /\ UNCHANGED <<aux_vars, alive, entries, now, response, command, response_last_id,
                   command_last_id, calls, loop, pool>>

\* last_id arguments of entry_read_since: "0", and ids on or between entries
LastIds == {<<0, 0>>, <<1, 0>>, <<1, 1>>, <<TickMs + 1, 0>>}

EntryNext ==
    \/ \E w \in Writes : EntryWrite(w[1], w[2])
    \/ \E n \in 1..(MaxEntries + 1), m \in ReadModes : EntryReadN(n, m[1], m[2])
    \/ \E l \in LastIds, n \in {None} \cup (1..(MaxEntries - 1)) : EntryReadSince(l, n)
    \/ Tick

EntrySpec == Init /\ [][EntryNext]_vars

\* The command engine with the teardown of the caller element.

\* __del__ of element e, which runs when nothing refers to the element any
\* more: none of its command_send calls is in progress.  The element has
\* published no stream; its response stream is deleted (and its command
\* stream, which nothing reads here).
ElementDel(e) ==
    /\ e = Caller
    /\ alive[e]
    /\ \A c \in Calls : calls[c].pc \in {"idle", "done"}
    /\ response' = <<>>
    /\ alive' = [alive EXCEPT ![e] = FALSE]
    /\ UNCHANGED <<aux_vars, entry_vars, now, command, response_last_id, command_last_id,
                   calls, loop, pool>>

\* get_all_elements(): the suffixes of the keys response:*.  response:<Caller>
\* exists while the stream has an entry; nothing here deletes or writes the
\* response stream of a callee after its construction.
GetAllElements ==
    {e \in Elements : IF e = Caller THEN response # <<>> ELSE alive[e]}

LifeNext ==
    \/ Next
    \/ \E e \in Elements : ElementDel(e)

LifeSpec == Init /\ [][LifeNext]_vars

\* One command_send at a time, with every kind of command and of handler
\* result.
SoloCmds == {"add_1", "fail", "ret_not_response", "loop", "nocmd"}
\* payloads; "fail" returns its payload as err_code
SoloData == {0, 1, 7, -3, -1000}

SoloNext ==
    \/ \E r \in Callees, n \in SoloCmds, d \in SoloData :
          SendSnapshot(1, r, n, d, ACK_TIMEOUT)
    \/ SendPost(1)
    \/ AckReadEmpty(1)
    \/ AckReadMsgs(1)
    \/ AckForMsg(1)
    \/ RespReadEmpty(1)
    \/ RespReadMsgs(1)
    \/ \E r \in Callees : LoopStart(r)
    \/ \E r \in Callees : LoopReadAck(r)
    \/ \E r \in Callees : LoopDispatch(r)
    \/ Tick

SoloSpec == Init /\ [][SoloNext]_vars

\* every thread that can take a step is scheduled, the thread that runs
\* command_loop in particular, and the clock goes on
LiveSpec ==
    /\ Spec
    /\ WF_vars(Next)
    /\ WF_vars(\E r \in Callees : LoopReadAck(r) \/ LoopDispatch(r))

----------------------------------------------------------------------------
\* The stream listener: one entry_read_loop of the caller on the streams
\* stream_0 and stream_1, each with a handler of its own, and the writers of
\* those streams.

\* config.MAX_BLOCK, 999999999999999999 ms: a block that does not end while
\* the clock is explored
MAX_BLOCK == MaxTime

\* n_loops and timeout arguments of entry_read_loop
NLoops == {None} \cup (1..MaxLoops)
ReadTimeouts == {TickMs, MAX_BLOCK}

\* _get_redis_timestamp(): the server clock in ms, which as a cursor is the
\* id <ms>-0
RedisTimestamp == <<now, 0>>

\* stream_handler_map[stream_id]: each stream has the handler named after it
StreamHandlerMap(stream) == stream

\* the items of the dict `streams` in iteration order: the str keys in the
\* order of stream_handlers, then the bytes keys in insertion order
DictItems(r) ==
    [i \in DOMAIN FeedNames |->
        [stream |-> FeedNames[i], id |-> r.str_cursor[FeedNames[i]]]]
        \o r.bytes_cursor

\* streams[stream] = uid, stream being the bytes name taken from the reply
SetBytesKey(items, stream, uid) ==
    IF \E i \in DOMAIN items : items[i].stream = stream
    THEN [i \in DOMAIN items |->
            IF items[i].stream = stream THEN [items[i] EXCEPT !.id = uid]
            ELSE items[i]]
    ELSE Append(items, [stream |-> stream, id |-> uid])

\* the server's reply to XREAD STREAMS k1..kn id1..idn: one item for each
\* (key, id) that has entries after id, in the order sent
XReadStreams(items) ==
    LET served == SelectSeq(items, LAMBDA it : XRead(feeds[it.stream], it.id) # <<>>)
    IN  [i \in DOMAIN served |->
            [stream |-> served[i].stream,
             msgs |-> XRead(feeds[served[i].stream], served[i].id)]]

\* the id last dispatched for a stream, NoId when there is none
LastDispatched(r, stream) ==
    LET own == SelectSeq(r.dispatched, LAMBDA d : d.stream = stream)
    IN  IF own = <<>> THEN NoId ELSE own[Len(own)].id

\* the inner loop over the messages of one stream of a reply
RECURSIVE DeliverMsgs(_, _, _)
DeliverMsgs(r, stream, msgs) ==
    IF msgs = <<>> THEN r
    ELSE DeliverMsgs(
            [r EXCEPT !.bytes_cursor = SetBytesKey(@, stream, Head(msgs).id),
                      !.dispatched = Append(@, [handler |-> StreamHandlerMap(stream),
                                                stream |-> stream,
                                                id |-> Head(msgs).id])],
            stream, Tail(msgs))

\* the loop over the streams of a reply
RECURSIVE DeliverReply(_, _)
DeliverReply(r, reply) ==
    IF reply = <<>> THEN r
    ELSE DeliverReply(DeliverMsgs(r, Head(reply).stream, Head(reply).msgs),
                      Tail(reply))

\* the end of one iteration of `for _ in n_loops`
EndIteration(r) ==
    [r EXCEPT !.done = @ + 1,
              !.pc = IF r.n_loops # None /\ r.done + 1 >= r.n_loops
                     THEN "returned" ELSE "run"]

\* the xread as it is sent
SendRead(r) ==
    [r EXCEPT !.sent = DictItems(r),
              !.last_at_read = [f \in Feeds |-> LastDispatched(r, f)]]

\* entry_read_loop(stream_handlers, n_loops, timeout): the cursors are taken
ReadLoopStart(n_loops, timeout) ==
    /\ rl.pc = "off"
    /\ rl' = [IdleReadLoop EXCEPT
                 !.pc = "run", !.n_loops = n_loops, !.timeout = timeout,
                 !.str_cursor = [f \in Feeds |-> RedisTimestamp],
                 !.base = [f \in Feeds |-> Len(feeds[f])]]
    /\ UNCHANGED <<ext_vars, now, cmd_vars, entry_vars, feeds, ser_vars, ref_vars,
                   health_vars, handler_vars>>

\* one iteration: the xread, then every entry of the reply to its handler;
\* with nothing to read the call blocks
ReadLoopIterate ==
    /\ rl.pc = "run"
    /\ rl.done < MaxLoops
    /\ LET reply == XReadStreams(DictItems(rl))
       IN  IF reply = <<>>
           THEN rl' = [SendRead(rl) EXCEPT !.pc = "blocked",
                                           !.wake = now + rl.timeout]
           ELSE rl' = EndIteration(DeliverReply(SendRead(rl), reply))
    /\ UNCHANGED <<ext_vars, now, cmd_vars, entry_vars, feeds, ser_vars, ref_vars,
                   health_vars, handler_vars>>

\* the block ends without an entry: the loop returns
ReadLoopTimeout ==
    /\ rl.pc = "blocked"
    /\ now >= rl.wake
    /\ rl' = [rl EXCEPT !.pc = "returned"]
    /\ UNCHANGED <<ext_vars, now, cmd_vars, entry_vars, feeds, ser_vars, ref_vars,
                   health_vars, handler_vars>>

\* a writer appends to a stream; the server serves a blocked xread on the
\* key with the first id sent for it, when the new entry is after that id
FeedWrite(f) ==
    LET new == XAdd(feeds[f], [id |-> NoId])
        uid == new[Len(new)].id
    IN  /\ Len(feeds[f]) < MaxFeedLen
        /\ feeds' = [feeds EXCEPT ![f] = new]
        /\ IF rl.pc = "blocked" /\ now < rl.wake /\ IdGreater(uid, rl.str_cursor[f])
           THEN rl' = EndIteration(
                        DeliverMsgs(rl, f, XRead(new, rl.str_cursor[f])))
           ELSE UNCHANGED rl
        /\ UNCHANGED <<ext_vars, now, cmd_vars, entry_vars, ser_vars, ref_vars,
                       health_vars, handler_vars>>

ReadNext ==
    \/ \E n \in NLoops, t \in ReadTimeouts : ReadLoopStart(n, t)
    \/ ReadLoopIterate
    \/ ReadLoopTimeout
    \/ \E f \in Feeds : FeedWrite(f)
    \/ Tick

ReadSpec == Init /\ [][ReadNext]_vars

----------------------------------------------------------------------------
\* The serialization decisions.  A tag is "None" (no argument), "none" or
\* "msgpack"; a legacy boolean is "unset" (no argument), "true" or "false".

SerializationArgs == {"None", "none", "msgpack"}
LegacyArgs == {"unset", "true", "false"}
SerKeys == {"absent", "none", "msgpack"}
\* the operations that serialize under a tag and a legacy boolean
WriteOps == {"command_add", "command_send", "entry_write", "reference_create"}

\* `if legacy is not None: serialization = "msgpack" if legacy else None`
LegacyMode(serialization, legacy) ==
    IF legacy # "unset"
    THEN (IF legacy = "true" THEN "msgpack" ELSE "None")
    ELSE serialization

\* _get_serialization_method(data, user_serialization, force_serialization,
\* deserialize); ser_key is data["ser"], "absent" when data has no such key
GetSerializationMethodOf(ser_key, user_serialization, force_serialization, deserialize) ==
    IF ~force_serialization
    THEN IF ser_key # "absent" THEN ser_key
         ELSE LegacyMode(user_serialization, deserialize)
    ELSE user_serialization

\* the codec command_send deserializes the response with: the "ser" field of
\* the response, else the legacy deserialize flag, else the one it sent with
ResponseSerialization(ser_key, serialization, serialize, deserialize) ==
    IF ser_key # "absent" THEN ser_key
    ELSE LegacyMode(LegacyMode(serialization, serialize), deserialize)

\* command_add, command_send, entry_write or reference_create chooses the
\* codec it serializes with
ChooseSerialization(op, serialization, legacy) ==
    /\ sel' = [NoSel EXCEPT !.op = op, !.serialization = serialization,
                            !.legacy = legacy,
                            !.used = LegacyMode(serialization, legacy)]
    /\ UNCHANGED <<ext_vars, now, cmd_vars, entry_vars, read_vars, ref_vars,
                   health_vars, handler_vars>>

\* a read (entry_read_n, entry_read_since, entry_read_loop, reference_get)
\* chooses the codec it deserializes with
ChooseDeserialization(ser_key, serialization, force_serialization, deserialize) ==
    /\ sel' = [NoSel EXCEPT !.op = "read", !.serialization = serialization,
                            !.ser_key = ser_key, !.force = force_serialization,
                            !.deserialize = deserialize,
                            !.used = GetSerializationMethodOf(
                                        ser_key, serialization,
                                        force_serialization, deserialize)]
    /\ UNCHANGED <<ext_vars, now, cmd_vars, entry_vars, read_vars, ref_vars,
                   health_vars, handler_vars>>

\* command_send chooses the codec it deserializes the response with
ChooseResponseSerialization(ser_key, serialization, serialize, deserialize) ==
    /\ sel' = [NoSel EXCEPT !.op = "response", !.serialization = serialization,
                            !.ser_key = ser_key, !.legacy = serialize,
                            !.deserialize = deserialize,
                            !.used = ResponseSerialization(
                                        ser_key, serialization, serialize,
                                        deserialize)]
    /\ UNCHANGED <<ext_vars, now, cmd_vars, entry_vars, read_vars, ref_vars,
                   health_vars, handler_vars>>

SerNext ==
    \/ \E op \in WriteOps, t \in SerializationArgs, l \in LegacyArgs :
          ChooseSerialization(op, t, l)
    \/ \E k \in SerKeys, t \in SerializationArgs, f \in BOOLEAN, l \in LegacyArgs :
          ChooseDeserialization(k, t, f, l)
    \/ \E k \in SerKeys, t \in SerializationArgs, l \in LegacyArgs, m \in LegacyArgs :
          ChooseResponseSerialization(k, t, l, m)

SerSpec == Init /\ [][SerNext]_vars

----------------------------------------------------------------------------
\* The reference store of one element, responder_0.  A key
\* reference:<owner>:<uuid>[:<field>]:ser:<tag> is named by its uuid, the
\* n-th one generated being n; refs[n] is what the server holds under it.

RefOwner == "responder_0"

\* the calls of reference_create: value list, serialization, timeout_ms
RefCreates ==
    {<<<<Bytes9>>, "none", TickMs>>, <<<<Bytes9, Int9>>, "none", TickMs>>,
     <<<<Bytes9, Int9>>, "msgpack", TickMs>>, <<<<Bytes9>>, "none", 0>>}
\* the timeout_ms arguments of the other reference calls
RefTimeouts == {0, TickMs}
\* the key lists of reference_get and reference_delete
RefKeyLists == {<<1>>, <<MaxRefs, 1>>, <<MaxRefs, MaxRefs>>}
\* the serialization and force_serialization arguments of reference_get
RefReadModes == {<<"none", FALSE>>, <<"msgpack", TRUE>>}

\* what reference_get returns for a key that holds nothing
NoneValue == [t |-> "None", v |-> 0, packed |-> FALSE]

\* the name of a key
RefKey(u) ==
    [owner |-> RefOwner, uuid |-> u, field |-> refs[u].field, ser |-> refs[u].ser]

\* whether the server holds the key: it was set, not deleted, and its expiry
\* has not passed
KeyExists(store, u) ==
    store[u].present /\ (store[u].when = None \/ now <= store[u].when)

\* references that never expire
PxValNever(timeout_ms) == None

\* px_val = timeout_ms if timeout_ms != 0 else None
PxVal(timeout_ms) == IF timeout_ms # 0 THEN timeout_ms ELSE None

\* SET key value PX px NX on a fresh key
SetPxNx(store, u, value, tag, field, timeout_ms, px) ==
    [store EXCEPT ![u] =
        [present |-> TRUE, ser |-> tag, field |-> field,
         stored |-> RedisEncode(Serialize(value, tag)),
         when |-> IF px = None THEN None ELSE now + px,
         orig |-> value, created |-> now, timeout_ms |-> timeout_ms,
         extended |-> FALSE]]

\* GET key
GetKey(store, u) == IF KeyExists(store, u) THEN store[u].stored ELSE NoneValue

\* PTTL key: -2 without the key, -1 without an expiry, else the ms left
Pttl(store, u) ==
    IF ~KeyExists(store, u) THEN -2
    ELSE IF store[u].when = None THEN -1 ELSE store[u].when - now

\* the pipeline of DELs, one after the other: the store left and the replies
RECURSIVE PipelineDelete(_, _)
PipelineDelete(store, keys) ==
    IF keys = <<>> THEN [store |-> store, data |-> <<>>]
    ELSE LET u == Head(keys)
             hit == KeyExists(store, u)
             rest == PipelineDelete([store EXCEPT ![u] = NoRef], Tail(keys))
         IN  [store |-> rest.store,
              data |-> <<IF hit THEN 1 ELSE 0>> \o rest.data]

\* the delete fails only when no key was deleted
DeleteFailedOnNone(data) == data # <<>> /\ \A i \in DOMAIN data : data[i] = 0

\* `all(data) != 1`
DeleteFailed(data) == \E i \in DOMAIN data : data[i] = 0

\* the script is taken to be loaded
ScriptLoadedAlways(sha) == TRUE

\* `self._stream_reference_sha is None`, negated
ScriptLoaded(sha) == sha # "None"

\* Element.__init__: the script is loaded and its SHA kept when the server
\* answers with one
RefElementInit(script_ok) ==
    /\ ~ref_el.constructed
    /\ ref_el' = [ref_el EXCEPT !.constructed = TRUE,
                                !.sha = IF script_ok THEN "sha" ELSE "None"]
    /\ UNCHANGED <<ext_vars, now, cmd_vars, entry_vars, read_vars, ser_vars, refs, ref_out,
                   health_vars, handler_vars>>

\* reference_create(*data, serialization=tag, timeout_ms=timeout_ms)
ReferenceCreate(data, tag, timeout_ms) ==
    LET first == ref_el.next_uuid
        uuids == [i \in DOMAIN data |-> first + i - 1]
    IN  /\ ref_el.constructed
        /\ first + Len(data) - 1 <= MaxRefs
        /\ refs' = [u \in 1..MaxRefs |->
                      IF u >= first /\ u < first + Len(data)
                      THEN SetPxNx(refs, u, data[u - first + 1], tag, "",
                                   timeout_ms, PxVal(timeout_ms))[u]
                      ELSE refs[u]]
        /\ ref_el' = [ref_el EXCEPT !.next_uuid = first + Len(data)]
        /\ ref_out' = [NoRefOut EXCEPT !.op = "create", !.at = now, !.uuids = uuids,
                                       !.timeout_ms = timeout_ms, !.status = "ok",
                                       !.result = [i \in DOMAIN data |->
                                           [owner |-> RefOwner, uuid |-> uuids[i],
                                            field |-> "", ser |-> tag]],
                                       !.acquired = TRUE, !.made = Len(data)]
        /\ UNCHANGED <<ext_vars, now, cmd_vars, entry_vars, read_vars, ser_vars,
                       health_vars, handler_vars>>

\* the keys the server-side script makes: one for the field "data" of the
\* chosen entry, under that entry's tag
StreamReferenceFields == <<"data">>

\* reference_create_from_stream(element, stream, stream_id, timeout_ms)
ReferenceCreateFromStream(timeout_ms) ==
    LET u == ref_el.next_uuid
    IN  /\ ref_el.constructed
        /\ IF ~ScriptLoaded(ref_el.sha)
           THEN /\ ref_out' = [NoRefOut EXCEPT !.op = "create_from_stream", !.at = now,
                                               !.timeout_ms = timeout_ms,
                                               !.status = "ValueError"]
                /\ UNCHANGED <<refs, ref_el>>
           ELSE /\ u <= MaxRefs
                /\ refs' = SetPxNx(refs, u, Bytes9, "none",
                                   StreamReferenceFields[1], timeout_ms,
                                   PxVal(timeout_ms))
                /\ ref_el' = [ref_el EXCEPT !.next_uuid = u + 1]
                /\ ref_out' = [NoRefOut EXCEPT
                                  !.op = "create_from_stream", !.at = now, !.uuids = <<u>>,
                                  !.timeout_ms = timeout_ms,
                                  !.status = IF ref_el.sha = "None"
                                             THEN "ResponseError" ELSE "ok",
                                  !.acquired = TRUE, !.made = 1]
        /\ UNCHANGED <<ext_vars, now, cmd_vars, entry_vars, read_vars, ser_vars,
                       health_vars, handler_vars>>

\* reference_get(*keys, serialization=serialization,
\* force_serialization=force_serialization)
ReferenceGet(keys, serialization, force_serialization) ==
    /\ ref_el.constructed
    /\ ref_out' = [NoRefOut EXCEPT
                      !.op = "get", !.at = now, !.uuids = keys, !.status = "ok",
                      !.force = force_serialization,
                      !.existed = [i \in DOMAIN keys |-> KeyExists(refs, keys[i])],
                      !.acquired = TRUE,
                      !.result = [i \in DOMAIN keys |->
                          IF GetKey(refs, keys[i]) = NoneValue THEN NoneValue
                          ELSE DeserializeField(
                                  GetKey(refs, keys[i]),
                                  GetSerializationMethodOf(
                                      refs[keys[i]].ser, serialization,
                                      force_serialization, "unset"))]]
    /\ UNCHANGED <<ext_vars, now, cmd_vars, entry_vars, read_vars, ser_vars, refs, ref_el,
                   health_vars, handler_vars>>

\* reference_delete(*keys)
ReferenceDelete(keys) ==
    LET done == PipelineDelete(refs, keys)
    IN  /\ ref_el.constructed
        /\ refs' = done.store
        /\ ref_out' = [NoRefOut EXCEPT
                          !.op = "delete", !.at = now, !.uuids = keys,
                          !.status = IF DeleteFailed(done.data)
                                     THEN "KeyError" ELSE "ok",
                          !.existed = [i \in DOMAIN keys |-> KeyExists(refs, keys[i])],
                          !.acquired = TRUE]
        /\ UNCHANGED <<ext_vars, now, cmd_vars, entry_vars, read_vars, ser_vars, ref_el,
                       health_vars, handler_vars>>

\* reference_update_timeout_ms(key, timeout_ms): PEXPIRE or PERSIST, either
\* of which answers 1 when it changed the expiry of the key
ReferenceUpdateTimeoutMs(u, timeout_ms) ==
    LET reply == IF timeout_ms > 0
                 THEN (IF KeyExists(refs, u) THEN 1 ELSE 0)
                 ELSE (IF KeyExists(refs, u) /\ refs[u].when # None THEN 1 ELSE 0)
    IN  /\ ref_el.constructed
        /\ refs' = IF reply = 1
                   THEN [refs EXCEPT ![u].when = IF timeout_ms > 0
                                                 THEN now + timeout_ms ELSE None,
                                     ![u].extended = TRUE]
                   ELSE refs
        /\ ref_out' = [NoRefOut EXCEPT
                          !.op = "update_timeout", !.at = now, !.uuids = <<u>>,
                          !.timeout_ms = timeout_ms,
                          !.status = IF reply # 1 THEN "KeyError" ELSE "ok",
                          !.existed = <<KeyExists(refs, u)>>,
                          !.acquired = TRUE]
        /\ UNCHANGED <<ext_vars, now, cmd_vars, entry_vars, read_vars, ser_vars, ref_el,
                       health_vars, handler_vars>>

\* reference_get_timeout_ms(key)
ReferenceGetTimeoutMs(u) ==
    /\ ref_el.constructed
    /\ ref_out' = [NoRefOut EXCEPT
                      !.op = "get_timeout", !.at = now, !.uuids = <<u>>,
                      !.status = IF Pttl(refs, u) = -2 THEN "KeyError" ELSE "ok",
                      !.result = <<Pttl(refs, u)>>,
                      !.existed = <<KeyExists(refs, u)>>,
                      !.acquired = TRUE]
    /\ UNCHANGED <<ext_vars, now, cmd_vars, entry_vars, read_vars, ser_vars, refs, ref_el,
                   health_vars, handler_vars>>

RefNext ==
    \/ \E ok \in BOOLEAN : RefElementInit(ok)
    \/ \E c \in RefCreates : ReferenceCreate(c[1], c[2], c[3])
    \/ \E ms \in RefTimeouts : ReferenceCreateFromStream(ms)
    \/ \E k \in RefKeyLists, m \in RefReadModes : ReferenceGet(k, m[1], m[2])
    \/ \E k \in RefKeyLists : ReferenceDelete(k)
    \/ \E u \in {1, MaxRefs}, ms \in RefTimeouts : ReferenceUpdateTimeoutMs(u, ms)
    \/ \E u \in {1, MaxRefs} : ReferenceGetTimeoutMs(u)
    \/ Tick

RefSpec == Init /\ [][RefNext]_vars

----------------------------------------------------------------------------
\* The health wait: one wait_for_elements_healthy of the caller on the two
\* responders.  A command_send of the wait is one step whose answer is that
\* of the element as it is at that moment: "down" (no command loop: NO_ACK),
\* "old" (version below the minimum), "foreign" (another language), "sick"
\* and "masked" (a healthcheck override that returns a non-zero code), "ok".

LANG == "Python"
\* supported_min_version=0.2 of the health wait, in tenths
HealthMinVersion == 2
\* retry_interval of the wait, ms
RetryIntervalMs == TickMs

HealthKinds == {"down", "old", "foreign", "sick", "masked", "ok"}

\* the code the healthcheck handler of an element returns
HealthcheckCode(kind) ==
    IF kind = "sick" THEN 5 ELSE IF kind = "masked" THEN -1000 ELSE 0

\* get_element_version(): the response of the version command, the version
\* in tenths
GetElementVersion(kind) ==
    IF kind = "down"
    THEN [err_code |-> ATOM_COMMAND_NO_ACK, language |-> "", version |-> 0]
    ELSE [err_code |-> ATOM_NO_ERROR,
          language |-> IF kind = "foreign" THEN "C" ELSE LANG,
          version |-> IF kind = "old" THEN 1 ELSE 3]

\* _check_element_version(element_name, supported_language_set,
\* supported_min_version)
CheckElementVersion(kind, supported_language_set, supported_min_version) ==
    LET reply == GetElementVersion(kind)
    IN  /\ reply.err_code = ATOM_NO_ERROR
        /\ reply.language \in supported_language_set
        /\ reply.version >= supported_min_version

\* the err_code of command_send(element_name, HEALTHCHECK_COMMAND, "")
HealthcheckErrCode(kind) ==
    IF kind = "down" THEN ATOM_COMMAND_NO_ACK
    ELSE ShiftErrCode(HealthcheckCode(kind))

\* no healthcheck response fails the round
HealthcheckFailedNever(err_code) == FALSE

\* `response["err_code"] != ATOM_NO_ERROR`
HealthcheckFailed(err_code) == err_code # ATOM_NO_ERROR

\* the round failed: `all_healthy = False; break`, then the sleep
FailRound(w) ==
    [w EXCEPT !.all_healthy = FALSE, !.pc = "sleep",
              !.wake = now + RetryIntervalMs, !.slept_at = now]

\* the element passed: the next one, or the end of the round with
\* all_healthy still true
PassElement(w) ==
    IF w.idx = Len(HealthNames) THEN [w EXCEPT !.pc = "returned"]
    ELSE [w EXCEPT !.idx = @ + 1, !.pc = "version"]

\* wait_for_elements_healthy(element_list, retry_interval, strict)
HealthWaitStart(strict) ==
    /\ hw.pc = "off"
    /\ hw' = [IdleHealthWait EXCEPT !.pc = "version", !.strict = strict,
                                    !.round = 1, !.began = now]
    /\ UNCHANGED <<ext_vars, now, cmd_vars, entry_vars, read_vars, ser_vars, ref_vars,
                   health, handler_vars>>

\* the version probe of the element at hand
HealthVersionProbe ==
    LET e == HealthNames[hw.idx]
        ok == CheckElementVersion(health.of[e], {LANG}, HealthMinVersion)
        w == [hw EXCEPT !.seen[e] = [NotProbed EXCEPT !.probed = TRUE,
                                                     !.version_ok = ok]]
    IN  /\ hw.pc = "version"
        /\ hw' = IF ok THEN [w EXCEPT !.pc = "healthcheck"]
                 ELSE IF hw.strict THEN FailRound(w) ELSE PassElement(w)
        /\ UNCHANGED <<ext_vars, now, cmd_vars, entry_vars, read_vars, ser_vars, ref_vars,
                       health, handler_vars>>

\* the healthcheck command of the element at hand
HealthCheckProbe ==
    LET e == HealthNames[hw.idx]
        err_code == HealthcheckErrCode(health.of[e])
        w == [hw EXCEPT !.seen[e].hc_sent = TRUE,
                        !.seen[e].hc_code = IF health.of[e] = "down" THEN 0
                                            ELSE HealthcheckCode(health.of[e]),
                        !.seen[e].hc_err = err_code]
    IN  /\ hw.pc = "healthcheck"
        /\ hw' = IF HealthcheckFailed(err_code) THEN FailRound(w)
                 ELSE PassElement(w)
        /\ UNCHANGED <<ext_vars, now, cmd_vars, entry_vars, read_vars, ser_vars, ref_vars,
                       health, handler_vars>>

\* time.sleep(retry_interval) ends: the next round
HealthWake ==
    /\ hw.pc = "sleep"
    /\ now >= hw.wake
    /\ hw' = [hw EXCEPT !.pc = "version", !.idx = 1, !.all_healthy = TRUE,
                        !.round = @ + 1, !.began = now,
                        !.seen = [e \in Callees |-> NotProbed]]
    /\ UNCHANGED <<ext_vars, now, cmd_vars, entry_vars, read_vars, ser_vars, ref_vars,
                   health, handler_vars>>

\* an element starts, stops, or changes what it answers
HealthChange(e, kind) ==
    /\ ~health.settled
    /\ health.of[e] # kind
    /\ health' = [health EXCEPT !.of[e] = kind]
    /\ UNCHANGED <<ext_vars, now, cmd_vars, entry_vars, read_vars, ser_vars, ref_vars,
                   hw, handler_vars>>

\* from here on every element stays healthy
HealthSettle ==
    /\ ~health.settled
    /\ \A e \in Callees : health.of[e] = "ok"
    /\ health' = [health EXCEPT !.settled = TRUE]
    /\ UNCHANGED <<ext_vars, now, cmd_vars, entry_vars, read_vars, ser_vars, ref_vars,
                   hw, handler_vars>>

HealthNext ==
    \/ \E strict \in BOOLEAN : HealthWaitStart(strict)
    \/ HealthVersionProbe
    \/ HealthCheckProbe
    \/ HealthWake
    \/ \E e \in Callees, k \in HealthKinds : HealthChange(e, k)
    \/ HealthSettle
    \/ Tick

\* the thread of the wait runs, and the clock advances
HealthSpec ==
    /\ Init /\ [][HealthNext]_vars
    /\ WF_vars(HealthVersionProbe \/ HealthCheckProbe \/ HealthWake)
    /\ WF_vars(Tick)

----------------------------------------------------------------------------
\* command_add, healthcheck_set and the command_list built-in of responder_0.

\* command_add(name, handler, timeout, serialization, deserialize)
CommandAdd(name, handler, timeout, serialization, deserialize) ==
    LET used == LegacyMode(serialization, deserialize)
        status == IF ~Callable(handler) THEN "TypeError"
                  ELSE IF ReservedTaken(handler_map, name) THEN "ValueError"
                  ELSE IF ~IsValidSerialization(used) THEN "ValueError"
                  ELSE "ok"
    IN  /\ handler_map' = IF status = "ok"
                          THEN PutHandler(handler_map, name, handler, used)
                          ELSE handler_map
        /\ timeouts' = IF status = "ok"
                       THEN PutTimeout(timeouts, name, timeout)
                       ELSE timeouts
        /\ hm_out' = [NoHandlerCall EXCEPT
                         !.op = "command_add", !.name = name,
                         !.handler = handler, !.timeout = timeout,
                         !.serialization = used, !.status = status,
                         !.before_map = handler_map,
                         !.before_timeouts = timeouts,
                         !.added = IF status = "ok" THEN hm_out.added \cup {name}
                                   ELSE hm_out.added]
        /\ UNCHANGED <<ext_vars, now, cmd_vars, entry_vars, read_vars, ser_vars, ref_vars,
                       health_vars>>

\* healthcheck_set(handler)
HealthcheckSet(handler) ==
    LET status == IF ~Callable(handler) THEN "TypeError" ELSE "ok"
    IN  /\ handler_map' = IF status = "ok"
                          THEN PutHandler(handler_map, HEALTHCHECK_COMMAND,
                                          handler, "None")
                          ELSE handler_map
        /\ timeouts' = IF status = "ok"
                       THEN PutTimeout(timeouts, HEALTHCHECK_COMMAND,
                                       RESPONSE_TIMEOUT)
                       ELSE timeouts
        /\ hm_out' = [NoHandlerCall EXCEPT
                         !.op = "healthcheck_set", !.name = HEALTHCHECK_COMMAND,
                         !.handler = handler, !.status = status,
                         !.before_map = handler_map,
                         !.before_timeouts = timeouts,
                         !.added = hm_out.added]
        /\ UNCHANGED <<ext_vars, now, cmd_vars, entry_vars, read_vars, ser_vars, ref_vars,
                       health_vars>>

\* the data of the command_list built-in:
\* `[k for k in self.handler_map if k not in self.reserved_commands]`
CommandListData(m) == {k \in HandlerMapKeys(m) : k \notin reserved_commands}

\* another element sends command_list and the handler answers
CommandList ==
    /\ hm_out' = [NoHandlerCall EXCEPT
                     !.op = "command_list", !.name = COMMAND_LIST_COMMAND,
                     !.status = "ok", !.reply = CommandListData(handler_map),
                     !.before_map = handler_map,
                     !.before_timeouts = timeouts,
                     !.added = hm_out.added]
    /\ UNCHANGED <<ext_vars, now, cmd_vars, entry_vars, read_vars, ser_vars, ref_vars,
                   health_vars, handler_map, timeouts>>

HandlerNext ==
    \/ \E n \in AddNames, h \in AddHandlers, t \in AddTimeouts,
          s \in AddSerializations, d \in AddDeserialize :
          CommandAdd(n, h, t, s, d)
    \/ \E h \in HealthcheckHandlers : HealthcheckSet(h)
    \/ CommandList

HandlerSpec == Init /\ [][HandlerNext]_vars

----------------------------------------------------------------------------
\* entry_write, clean_up_stream and __del__ of responder_0.

\* entry_write(stream_name, field_data_map): the name joins self.streams
\* first; a reserved key raises before a pipeline is taken
PubEntryWrite(stream_name, fields) ==
    LET ok == ~HasReservedKey(fields)
    IN  /\ ~pub.deleted
        /\ pub.published[stream_name] < MaxEntries
        /\ pub' = [pub EXCEPT
                      !.streams = @ \cup {stream_name},
                      !.published[stream_name] = IF ok THEN @ + 1 ELSE @,
                      !.wrote = IF ok THEN @ \cup {stream_name} ELSE @]
        /\ pub_out' = [op |-> "entry_write", stream |-> stream_name,
                       status |-> IF ok THEN "ok" ELSE "ValueError",
                       before |-> pub, held |-> 0]
        /\ UNCHANGED <<now, cmd_vars, entry_vars, read_vars, ser_vars, ref_vars,
                       health_vars, handler_vars, shut_vars, name_vars, dec_vars,
                   pq_vars>>

\* clean_up_stream(stream) on the tables p
CleanUp(p, stream) ==
    [p EXCEPT !.published[stream] = 0, !.streams = @ \ {stream},
              !.wrote = @ \ {stream}]

\* clean_up_stream(stream)
CleanUpStream(stream) ==
    /\ ~pub.deleted
    /\ pub' = IF stream \notin pub.streams THEN pub ELSE CleanUp(pub, stream)
    /\ pub_out' = [op |-> "clean_up_stream", stream |-> stream,
                   status |-> IF stream \notin pub.streams THEN "Exception"
                              ELSE "ok",
                   before |-> pub, held |-> 0]
    /\ UNCHANGED <<now, cmd_vars, entry_vars, read_vars, ser_vars, ref_vars,
                   health_vars, handler_vars, shut_vars, name_vars, dec_vars,
                   pq_vars>>

\* `for stream in self.streams.copy(): self.clean_up_stream(stream)`
RECURSIVE CleanUpAll(_, _)
CleanUpAll(p, names) ==
    IF names = {} THEN p
    ELSE LET stream == CHOOSE x \in names : TRUE
         IN  CleanUpAll(CleanUp(p, stream), names \ {stream})

\* __del__
PubDel ==
    /\ ~pub.deleted
    /\ pub' = [CleanUpAll(pub, pub.streams) EXCEPT !.own = {}, !.deleted = TRUE]
    /\ pub_out' = [op |-> "__del__", stream |-> "", status |-> "ok",
                   before |-> pub, held |-> 0]
    /\ UNCHANGED <<now, cmd_vars, entry_vars, read_vars, ser_vars, ref_vars,
                   health_vars, handler_vars, shut_vars, name_vars, dec_vars,
                   pq_vars>>

\* the field_data_map arguments
PubFields == {w[1] : w \in Writes}

PubNext ==
    \/ \E n \in PubNames, f \in PubFields : PubEntryWrite(n, f)
    \/ \E n \in PubNames : CleanUpStream(n)
    \/ PubDel

PubSpec == Init /\ [][PubNext]_vars

----------------------------------------------------------------------------
\* The command engine with command_loop_shutdown.

\* command_loop_shutdown() of element r
CommandLoopShutdown(r) ==
    /\ alive[r]
    /\ ~shutdown[r]
    /\ shutdown' = [shutdown EXCEPT ![r] = TRUE]
    /\ UNCHANGED <<now, cmd_vars, entry_vars, read_vars, ser_vars, ref_vars,
                   health_vars, handler_vars, pub_vars, name_vars, dec_vars,
                   pq_vars>>

\* the element whose loop is shut down, and the commands sent to it
ShutCallee == "responder_0"
ShutCmds == {"add_1", "boom"}

\* the steps of the two calls and of the loop
ShutRun ==
    \/ \E c \in Calls, n \in ShutCmds :
          SendSnapshot(c, ShutCallee, n, DataOf(c), ACK_TIMEOUT)
    \/ \E c \in Calls : SendPost(c)
    \/ \E c \in Calls : AckReadEmpty(c)
    \/ \E c \in Calls : AckReadMsgs(c)
    \/ \E c \in Calls : AckForMsg(c)
    \/ \E c \in Calls : RespReadEmpty(c)
    \/ \E c \in Calls : RespReadMsgs(c)
    \/ LoopStart(ShutCallee)
    \/ LoopReadAck(ShutCallee)
    \/ LoopDispatch(ShutCallee)
    \/ Tick

ShutNext ==
    \/ ShutRun
    \/ CommandLoopShutdown(ShutCallee)

\* every thread that can take a step is scheduled, the thread that runs
\* command_loop in particular
ShutSpec ==
    /\ Init /\ [][ShutNext]_vars
    /\ WF_vars(ShutRun)
    /\ WF_vars(LoopReadAck(ShutCallee) \/ LoopDispatch(ShutCallee))

----------------------------------------------------------------------------
\* The id functions and get_all_elements.

\* f"command:{element_name}"
MakeCommandId(element_name) == <<"command", ":">> \o element_name

\* f"response:{element_name}"
MakeResponseId(element_name) == <<"response", ":">> \o element_name

\* f"stream:{element_name}:{stream_name}"
MakeStreamId(element_name, stream_name) ==
    <<"stream", ":">> \o element_name \o <<":">> \o stream_name

RECURSIVE LastPart(_)
\* key.split(":")[-1]: what follows the last ":" of the key
LastPart(key) ==
    IF key = <<>> \/ key[Len(key)] = ":" THEN <<>>
    ELSE Append(LastPart(SubSeq(key, 1, Len(key) - 1)), key[Len(key)])

\* get_all_elements() with the keys given on the server
GetAllElementsOf(keys) == {LastPart(k) : k \in keys}

\* the ids of two elements and of a stream of each are made, and
\* get_all_elements is called with the response streams of both on the server
MakeIds(element, stream, element_2, stream_2) ==
    /\ naming.op = "none"
    /\ naming' =
          [op |-> "make", element |-> element, stream |-> stream,
           element_2 |-> element_2, stream_2 |-> stream_2,
           command_id |-> MakeCommandId(element),
           response_id |-> MakeResponseId(element),
           stream_id |-> MakeStreamId(element, stream),
           command_id_2 |-> MakeCommandId(element_2),
           response_id_2 |-> MakeResponseId(element_2),
           stream_id_2 |-> MakeStreamId(element_2, stream_2),
           all_elements |-> GetAllElementsOf({MakeResponseId(element),
                                              MakeResponseId(element_2)})]
    /\ UNCHANGED <<now, cmd_vars, entry_vars, read_vars, ser_vars, ref_vars,
                   health_vars, handler_vars, pub_vars, shut_vars, dec_vars,
                   pq_vars>>

NameNext ==
    \E e \in Names, s \in Names, e2 \in Names, s2 \in Names : MakeIds(e, s, e2, s2)

NameSpec == Init /\ [][NameNext]_vars

----------------------------------------------------------------------------
\* The command engine with command_send called with ack_timeout = 0.

ZeroNext ==
    \/ \E c \in Calls, r \in Callees, n \in Cmds :
          SendSnapshot(c, r, n, DataOf(c), 0)
    \/ \E c \in Calls : SendPost(c)
    \/ \E c \in Calls : AckReadEmpty(c)
    \/ \E c \in Calls : AckReadMsgs(c)
    \/ \E c \in Calls : AckForMsg(c)
    \/ \E c \in Calls : RespReadEmpty(c)
    \/ \E c \in Calls : RespReadMsgs(c)
    \/ \E r \in Callees : LoopStart(r)
    \/ \E r \in Callees : LoopReadAck(r)
    \/ \E r \in Callees : LoopDispatch(r)
    \/ Tick

ZeroSpec == Init /\ [][ZeroNext]_vars

----------------------------------------------------------------------------
\* The codec of each item of one read: the entries of entry_read_loop,
\* entry_read_n and entry_read_since and the keys of reference_get, in the
\* order the call goes through them.  An item is given by its "ser" tag:
\* the "ser" field of the entry or the segment after ":ser:" of the key,
\* "absent" for an entry or a key without one.

\* the reads that decode a batch
BatchOps == {"entry_read_loop", "entry_read_n", "entry_read_since", "reference_get"}

RECURSIVE BatchesOf(_)
\* the batches of n items
BatchesOf(n) ==
    IF n = 0 THEN {<<>>}
    ELSE {Append(b, k) : b \in BatchesOf(n - 1), k \in SerKeys}

Batches == UNION {BatchesOf(n) : n \in 1..MaxBatch}

RECURSIVE DecodeBatch(_, _, _, _)
\* `serialization = self._get_serialization_method(entry, serialization,
\* force_serialization, deserialize)` for each item in turn: the result is
\* assigned to the variable that holds the caller's argument
DecodeBatch(keys, serialization, force_serialization, deserialize) ==
    IF keys = <<>> THEN <<>>
    ELSE LET method == GetSerializationMethodOf(Head(keys), serialization,
                                                force_serialization, deserialize)
         IN  <<method>> \o DecodeBatch(Tail(keys), method, force_serialization,
                                       deserialize)

\* one read of a batch
ReadBatch(op, keys, serialization, force_serialization, deserialize) ==
    /\ dec.op = "none"
    /\ dec' = [op |-> op, keys |-> keys, serialization |-> serialization,
               force |-> force_serialization, deserialize |-> deserialize,
               used |-> DecodeBatch(keys, serialization, force_serialization,
                                    deserialize)]
    /\ UNCHANGED <<now, cmd_vars, entry_vars, read_vars, ser_vars, ref_vars,
                   health_vars, handler_vars, pub_vars, shut_vars, name_vars,
                   pq_vars>>

DecNext ==
    \E op \in BatchOps, k \in Batches, t \in SerializationArgs, f \in BOOLEAN,
       l \in LegacyArgs : ReadBatch(op, k, t, f, l)

DecSpec == Init /\ [][DecNext]_vars

----------------------------------------------------------------------------
\* The pipeline pool of one element under load: the command_loop thread, one
\* worker thread told apart and PoolThreads more.  A worker runs operations
\* of the shape get(), xadd, execute(), _release_pipeline (command_send's
\* post, entry_write, log, the reference calls); readers take no pipeline.
\* No handler raises and no transport error occurs.

\* _release_pipeline that does not put the pipeline back
ReleasePipelineDropped(free) == free

\* _release_pipeline: `self._rpipeline_pool.put(pipeline)`
ReleasePipeline(free) == free + 1

\* Queue.get() returns at once
QueueReady(free) == free > 0

\* a worker thread calls _rpipeline_pool.get()
WorkerGet ==
    /\ pq.hold + pq.wait < PoolThreads
    /\ pq' = [pq EXCEPT !.wait = @ + 1]
    /\ UNCHANGED not_pq_vars

\* get() returns a pipeline to a worker thread
WorkerTake ==
    /\ pq.wait > 0
    /\ QueueReady(pq.free)
    /\ pq' = [pq EXCEPT !.wait = @ - 1, !.hold = @ + 1, !.free = @ - 1]
    /\ UNCHANGED not_pq_vars

\* a worker thread has executed its pipeline and releases it
WorkerRelease ==
    /\ pq.hold > 0
    /\ pq' = [pq EXCEPT !.hold = @ - 1, !.free = ReleasePipeline(@)]
    /\ UNCHANGED not_pq_vars

\* the same three steps of the worker that is told apart
MeGet ==
    /\ pq.me = "idle"
    /\ pq' = [pq EXCEPT !.me = "wait"]
    /\ UNCHANGED not_pq_vars

MeTake ==
    /\ pq.me = "wait"
    /\ QueueReady(pq.free)
    /\ pq' = [pq EXCEPT !.me = "hold", !.free = @ - 1]
    /\ UNCHANGED not_pq_vars

MeRelease ==
    /\ pq.me = "hold"
    /\ pq' = [pq EXCEPT !.me = "idle", !.free = ReleasePipeline(@)]
    /\ UNCHANGED not_pq_vars

\* command_loop has read a command with a caller and calls get() for the
\* acknowledge
PoolLoopRead ==
    /\ pq.loop = "read"
    /\ pq' = [pq EXCEPT !.loop = "get_ack"]
    /\ UNCHANGED not_pq_vars

\* get() returns in command_loop or in the log() it called
PoolLoopTake ==
    /\ pq.loop \in {"get_ack", "get_log"}
    /\ QueueReady(pq.free)
    /\ pq' = [pq EXCEPT !.loop = IF @ = "get_ack" THEN "acked" ELSE "log",
                        !.free = @ - 1]
    /\ UNCHANGED not_pq_vars

\* the acknowledge is written; the command is unsupported and the loop calls
\* log(), or its handler runs and returns
PoolLoopDispatch ==
    /\ pq.loop = "acked"
    /\ \E supported \in BOOLEAN :
          pq' = [pq EXCEPT !.loop = IF supported THEN "respond" ELSE "get_log"]
    /\ UNCHANGED not_pq_vars

\* log() releases its pipeline
PoolLoopLogged ==
    /\ pq.loop = "log"
    /\ pq' = [pq EXCEPT !.loop = "respond", !.free = ReleasePipeline(@)]
    /\ UNCHANGED not_pq_vars

\* the response is written and the pipeline of the iteration released
PoolLoopRespond ==
    /\ pq.loop = "respond"
    /\ pq' = [pq EXCEPT !.loop = "read", !.free = ReleasePipeline(@)]
    /\ UNCHANGED not_pq_vars

PoolLoopStep == PoolLoopDispatch \/ PoolLoopLogged \/ PoolLoopRespond

PoolNext ==
    \/ WorkerGet
    \/ WorkerTake
    \/ WorkerRelease
    \/ MeGet
    \/ MeTake
    \/ MeRelease
    \/ PoolLoopRead
    \/ PoolLoopTake
    \/ PoolLoopDispatch
    \/ PoolLoopLogged
    \/ PoolLoopRespond

\* a thread that holds a pipeline and is not blocked goes on, and a thread
\* blocked in get() is not passed over for ever once pipelines keep coming
\* back (the queue wakes its waiters in turn)
PoolSpec ==
    /\ Init /\ [][PoolNext]_vars
    /\ WF_vars(WorkerRelease)
    /\ WF_vars(MeRelease)
    /\ WF_vars(PoolLoopStep)
    /\ SF_vars(MeTake)
    /\ SF_vars(PoolLoopTake)

----------------------------------------------------------------------------
\* The command engine of an element that found a command on its command
\* stream when it was constructed.

LateSpec == LateInit /\ [][ShutRun]_vars

----------------------------------------------------------------------------
\* Frames of response:<Caller> that belong to a call: the acknowledge and
\* the response that carry its callee and the id of its command.

OwnAcks(c) ==
    {i \in DOMAIN response :
        /\ "timeout" \in response[i].has
        /\ response[i].element = calls[c].callee
        /\ response[i].cmd_id = calls[c].cmd_id}

OwnResponses(c) ==
    {i \in DOMAIN response :
        /\ "err_code" \in response[i].has
        /\ response[i].element = calls[c].callee
        /\ response[i].cmd_id = calls[c].cmd_id}

Replied(c) ==
    /\ calls[c].pc = "done"
    /\ calls[c].resp.err_code \notin {ATOM_COMMAND_NO_ACK, ATOM_COMMAND_NO_RESPONSE}

----------------------------------------------------------------------------
\* C1: a call that returns a reply returns the err_code and data of a response
\* frame that carries its own callee and the id of its own command (for add_1
\* that is its own payload plus one), and the timeout it waits with is the
\* timeout of the acknowledge that carries its own callee and command id.
C1_ReplyIsOwn ==
    \A c \in Calls :
        /\ Replied(c) =>
              /\ \E i \in OwnResponses(c) :
                    /\ response[i].err_code = calls[c].resp.err_code
                    /\ response[i].data = calls[c].resp.data
              /\ calls[c].resp.err_code = ATOM_NO_ERROR =>
                    calls[c].resp.data = calls[c].data + 1
        /\ calls[c].timeout # None =>
              \E i \in OwnAcks(c) : response[i].timeout = calls[c].timeout

\* both calls returned a reply, from different callees, for commands with the
\* same id
C1_Witness ==
    /\ \A c \in Calls : Replied(c) /\ calls[c].resp.err_code = ATOM_NO_ERROR
    /\ calls[1].callee # calls[2].callee
    /\ calls[1].cmd_id = calls[2].cmd_id

----------------------------------------------------------------------------
\* C2: a call does not miss its own reply, whatever the other calls do to the
\* shared cursor: a call that returned NO_ACK has no acknowledge of its own on
\* response:<Caller> that was appended before its ack deadline, and a call
\* that returned NO_RESPONSE has no response of its own that was appended
\* before the end of the acknowledged timeout (the ms part of an id is the
\* time of the append; start_read is the start of the phase the call ended in).
C2_NoMissedReply ==
    \A c \in Calls :
        calls[c].pc = "done" =>
            /\ calls[c].resp.err_code = ATOM_COMMAND_NO_ACK =>
                  \A i \in OwnAcks(c) :
                      response[i].id[1] >= calls[c].start_read + calls[c].ack_timeout
            /\ calls[c].resp.err_code = ATOM_COMMAND_NO_RESPONSE =>
                  \A i \in OwnResponses(c) :
                      response[i].id[1] >= calls[c].start_read + calls[c].timeout

\* a call has read its acknowledge and waits for its response, which is on the
\* stream at or before the shared cursor: another call has moved the shared
\* cursor past it
C2_Witness ==
    \E c \in Calls :
        /\ calls[c].pc = "resp_read"
        /\ calls[c].timeout # None
        /\ \E i \in OwnResponses(c) : ~IdGreater(response[i].id, response_last_id)

----------------------------------------------------------------------------
\* C3: the shared cursor response_last_id never decreases: every step leaves it
\* unchanged or replaces it by an id that is strictly greater in (ms, seq)
\* order.
C3_CursorMonotonic ==
    [][\/ response_last_id' = response_last_id
       \/ \/ response_last_id'[1] > response_last_id[1]
          \/ /\ response_last_id'[1] = response_last_id[1]
             /\ response_last_id'[2] > response_last_id[2]]_vars

\* a call is about to pass to _update_response_id_if_older the id of an entry
\* that is older than the shared cursor, which another call has advanced
C3_Witness ==
    \E c \in Calls :
        /\ calls[c].pc = "ack_for"
        /\ ~IsAck(Head(calls[c].msgs), calls[c].callee, calls[c].cmd_id)
        /\ IdGreater(response_last_id, Head(calls[c].msgs).id)
        /\ response_last_id # <<1, 0>>

----------------------------------------------------------------------------
\* C4: the caller state machine.  NO_ACK is returned only by a call that read
\* no acknowledge of its own; a call waits for its response only after it read
\* its acknowledge, and then no longer than the timeout that acknowledge
\* carries; NO_RESPONSE is returned only after the acknowledge and carries no
\* data; every other reply is the content of a response frame of the call.
C4_CallerStateMachine ==
    \A c \in Calls :
        LET rec == calls[c]
        IN  /\ rec.pc \in {"idle", "post", "ack_read", "ack_for", "resp_read", "done"}
            /\ rec.pc \in {"idle", "post", "ack_read", "ack_for"} => rec.timeout = None
            /\ rec.pc = "resp_read" =>
                  /\ \E i \in OwnAcks(c) : response[i].timeout = rec.timeout
                  /\ rec.wake <= rec.start_read + rec.timeout
            /\ rec.pc = "done" =>
                  /\ rec.resp.err_code = ATOM_COMMAND_NO_ACK => rec.timeout = None
                  /\ rec.resp.err_code = ATOM_COMMAND_NO_RESPONSE =>
                        /\ rec.timeout # None
                        /\ OwnAcks(c) # {}
                        /\ rec.resp.data = None
                  /\ rec.resp.err_code \notin
                        {ATOM_COMMAND_NO_ACK, ATOM_COMMAND_NO_RESPONSE} =>
                        /\ rec.timeout # None
                        /\ \E i \in OwnResponses(c) :
                              /\ response[i].err_code = rec.resp.err_code
                              /\ response[i].data = rec.resp.data

\* one call ended WAIT_ACK with NO_ACK, the other went through WAIT_ACK and
\* WAIT_RESP and ended with NO_RESPONSE
C4_Witness ==
    \E c, d \in Calls :
        /\ calls[c].pc = "done" /\ calls[c].resp.err_code = ATOM_COMMAND_NO_ACK
        /\ calls[d].pc = "done" /\ calls[d].resp.err_code = ATOM_COMMAND_NO_RESPONSE

----------------------------------------------------------------------------
\* C5: the acknowledge phase is bounded by wall-clock time: a call is in it no
\* longer than ack_timeout ms (1 ms at least, the shortest block) after the
\* phase began, and each blocking read of the phase ends no later than that
\* deadline (its block is the remaining time).
C5_AckPhaseBounded ==
    \A c \in Calls :
        LET deadline == calls[c].start_read + Max(calls[c].ack_timeout, 1)
        IN  /\ calls[c].pc \in {"ack_read", "ack_for"} => now <= deadline
            /\ calls[c].pc = "ack_read" => calls[c].wake <= deadline

----------------------------------------------------------------------------
\* The commands a command loop has read, and the frames it wrote for one.

\* ids of the well-formed commands at or before the loop's cursor
CommandsRead(r) ==
    {command[r][i].id : i \in
        {j \in DOMAIN command[r] :
            /\ ~IdGreater(command[r][j].id, command_last_id[r])
            /\ {"element", "cmd", "data"} \subseteq command[r][j].has
            /\ command[r][j].element # ""}}

AcksOf(r, cmd_id) ==
    {i \in DOMAIN response :
        /\ "timeout" \in response[i].has
        /\ response[i].element = r
        /\ response[i].cmd_id = cmd_id}

ResponsesOf(r, cmd_id) ==
    {i \in DOMAIN response :
        /\ "err_code" \in response[i].has
        /\ response[i].element = r
        /\ response[i].cmd_id = cmd_id}

\* C6: for every well-formed command the loop has read there is at most one
\* acknowledge and at most one response frame on response:<caller>, and once
\* the iteration that read it is over (the loop is back at its read, or has
\* left command_loop) exactly one of each.
C6_OneAckOneResponse ==
    \A r \in Callees :
        \A k \in CommandsRead(r) :
            /\ Cardinality(AcksOf(r, k)) <= 1
            /\ Cardinality(ResponsesOf(r, k)) <= 1
            /\ loop[r].pc \in {"read", "raised"} =>
                  /\ Cardinality(AcksOf(r, k)) = 1
                  /\ Cardinality(ResponsesOf(r, k)) = 1

----------------------------------------------------------------------------
\* C7: the acknowledge of a command is on response:<caller> before its handler
\* is invoked and before its response: while the loop dispatches a command or
\* runs its handler the acknowledge is on the stream; every response frame has
\* an acknowledge with the same element and cmd_id earlier in the stream, with
\* a smaller id; and a call that has not read its acknowledge has not passed
\* its response.
C7_AckBeforeResponse ==
    /\ \A r \in Callees :
          loop[r].pc \in {"dispatch", "handler", "raised"} =>
              /\ AcksOf(r, loop[r].cmd_id) # {}
              /\ ResponsesOf(r, loop[r].cmd_id) = {}
    /\ \A j \in DOMAIN response :
          "err_code" \in response[j].has =>
              \E i \in AcksOf(response[j].element, response[j].cmd_id) :
                  /\ i < j
                  /\ IdGreater(response[j].id, response[i].id)
    /\ \A c \in Calls :
          calls[c].pc \notin {"idle", "post"} /\ calls[c].timeout = None =>
              \A j \in OwnResponses(c) :
                  IdGreater(response[j].id, calls[c].local_last_id)

\* a call has read its acknowledge and then its response, both written by the
\* loop of its callee
C7_Witness ==
    \E c \in Calls :
        /\ Replied(c)
        /\ \E i \in OwnAcks(c), j \in OwnResponses(c) : i < j

----------------------------------------------------------------------------
\* C8: the command loop never leaves command_loop because of a handler error,
\* and a command whose handler raised has its response frame once the loop is
\* past it.
C8_LoopSurvivesHandlerError ==
    \A r \in Callees :
        /\ loop[r].pc # "raised"
        /\ loop[r].pc = "read" =>
              \A k \in CommandsRead(r) : ResponsesOf(r, k) # {}

----------------------------------------------------------------------------
\* C9: a call whose handler overruns its timeout returns NO_RESPONSE, and the
\* command loop that runs such a handler gets back to its read, having written
\* the response of that command.
C9_LoopOutlivesHandlerTimeout ==
    /\ [](\A c \in Calls :
            calls[c].pc = "done" /\ calls[c].cmd = "loop" /\ calls[c].timeout # None
                => calls[c].resp.err_code = ATOM_COMMAND_NO_RESPONSE)
    /\ \A r \in Callees :
          (loop[r].pc = "handler") ~>
              (loop[r].pc = "read" /\ \A k \in CommandsRead(r) : ResponsesOf(r, k) # {})

----------------------------------------------------------------------------
\* C10: the pipelines in the pool of an element and the pipelines held by its
\* operations in progress add up to the pool size.
HeldPipelines(e) ==
    IF e \in Callees /\ loop[e].pc \in {"dispatch", "handler"} THEN 1 ELSE 0

C10_PipelinesReturned ==
    \A e \in Elements : pool[e] + HeldPipelines(e) = REDIS_PIPELINE_POOL_SIZE

----------------------------------------------------------------------------
\* The command frames a loop has read whose name is, or is not, in its handler
\* table.

\* the command frame of command:<r> with the given id
CommandOf(r, cmd_id) ==
    command[r][CHOOSE i \in DOMAIN command[r] : command[r][i].id = cmd_id]

\* a call that has returned with the content of a response frame
Answered(c, r, cmd_name) ==
    /\ calls[c].pc = "done"
    /\ calls[c].callee = r
    /\ calls[c].cmd = cmd_name
    /\ calls[c].resp.err_code \notin {ATOM_COMMAND_NO_ACK, ATOM_COMMAND_NO_RESPONSE}

\* C11: a handler that returns a Response with a non-zero err_code e has its
\* response frame written with e + 1000, and that is the err_code command_send
\* returns; an err_code of 0 is transmitted as 0.  ("fail" returns its payload
\* as err_code, "add_1" returns 0.)
C11_UserErrorShifted ==
    /\ \A r \in Callees : \A k \in CommandsRead(r) : \A j \in ResponsesOf(r, k) :
          LET cmd == CommandOf(r, k)
          IN  /\ cmd.cmd = "fail" /\ "fail" \in HandlerNames(r) =>
                    response[j].err_code =
                        IF cmd.data # 0 THEN cmd.data + 1000 ELSE 0
              /\ cmd.cmd = "add_1" /\ "add_1" \in HandlerNames(r) =>
                    response[j].err_code = 0
    /\ \A c \in Calls : \A r \in Callees :
          /\ Answered(c, r, "fail") /\ "fail" \in HandlerNames(r) =>
                calls[c].resp.err_code =
                    IF calls[c].data # 0 THEN calls[c].data + 1000 ELSE 0
          /\ Answered(c, r, "add_1") /\ "add_1" \in HandlerNames(r) =>
                calls[c].resp.err_code = 0

\* a call whose handler returned err_code 7 got 1007
C11_Witness ==
    \E c \in Calls :
        /\ Answered(c, "responder_0", "fail")
        /\ calls[c].data = 7
        /\ calls[c].resp.err_code = 1007

----------------------------------------------------------------------------
\* C12: the err_code command_send returns is 0, a framework code (3 and 4 of
\* the caller, 6 and 7 of the callee) or a user code of 1000 or more, and a
\* non-zero code returned by a handler arrives neither as 0 nor in 1..999.
C12_ErrorCodesPartitioned ==
    \A c \in Calls :
        calls[c].pc = "done" =>
            /\ \/ calls[c].resp.err_code = ATOM_NO_ERROR
               \/ calls[c].resp.err_code \in
                     {ATOM_COMMAND_NO_ACK, ATOM_COMMAND_NO_RESPONSE,
                      ATOM_COMMAND_UNSUPPORTED, ATOM_CALLBACK_FAILED}
               \/ calls[c].resp.err_code >= ATOM_USER_ERRORS_BEGIN
            /\ \A r \in Callees :
                  /\ Answered(c, r, "fail")
                  /\ "fail" \in HandlerNames(r)
                  /\ calls[c].data # 0
                  => calls[c].resp.err_code >= ATOM_USER_ERRORS_BEGIN

----------------------------------------------------------------------------
\* C13: a command whose name is not in the handler table of the callee is
\* acknowledged with RESPONSE_TIMEOUT and answered with err_code 6, not
\* shifted; no handler is called for it, and command_send returns 6.
C13_UnsupportedCommand ==
    /\ \A r \in Callees : \A k \in CommandsRead(r) :
          CommandOf(r, k).cmd \notin HandlerNames(r) =>
              /\ \A i \in AcksOf(r, k) : response[i].timeout = 1000
              /\ \A j \in ResponsesOf(r, k) : response[j].err_code = 6
              /\ k \notin loop[r].invoked
              /\ loop[r].pc = "read" =>
                    AcksOf(r, k) # {} /\ ResponsesOf(r, k) # {}
    /\ \A c \in Calls : \A r \in Callees : \A n \in SoloCmds \cup Cmds :
          Answered(c, r, n) /\ n \notin HandlerNames(r) =>
              calls[c].resp.err_code = 6

\* a call of a command that no callee has returned 6
C13_Witness ==
    \E c \in Calls : \E r \in Callees :
        /\ Answered(c, r, "nocmd")
        /\ calls[c].resp.err_code = ATOM_COMMAND_UNSUPPORTED
        /\ loop[r].invoked = {}

----------------------------------------------------------------------------
\* C14: a handler that returns a value that is not a Response is answered with
\* err_code 7, not shifted, and command_send returns 7.
C14_CallbackFailed ==
    /\ \A r \in Callees : \A k \in CommandsRead(r) : \A j \in ResponsesOf(r, k) :
          /\ CommandOf(r, k).cmd = "ret_not_response"
          /\ "ret_not_response" \in HandlerNames(r)
          => response[j].err_code = 7
    /\ \A c \in Calls : \A r \in Callees :
          Answered(c, r, "ret_not_response") /\ "ret_not_response" \in HandlerNames(r)
              => calls[c].resp.err_code = 7

\* a call of ret_not_response returned 7 after the handler was called
C14_Witness ==
    \E c \in Calls :
        /\ Answered(c, "responder_0", "ret_not_response")
        /\ calls[c].resp.err_code = ATOM_CALLBACK_FAILED
        /\ calls[c].cmd_id \in loop["responder_0"].invoked

----------------------------------------------------------------------------
\* the command frames of command:<r> that carry the id, the caller, the name
\* and the payload of call c
OwnCommands(c, r) ==
    {i \in DOMAIN command[r] :
        /\ command[r][i].id = calls[c].cmd_id
        /\ command[r][i].has = {"element", "cmd", "data"}
        /\ command[r][i].element = Caller
        /\ command[r][i].cmd = calls[c].cmd
        /\ command[r][i].data = calls[c].data}

\* C15: a call to a callee whose command loop never ran returns NO_ACK, not
\* before ack_timeout ms have elapsed, and exactly then when nothing else was
\* written to response:<Caller>; every call that is past its post, and no
\* other, has exactly one command frame {element = caller, cmd, data} on
\* command:<callee>, so the frame is there before the first read of the
\* response stream.
C15_NoAckWithoutLoop ==
    /\ \A c \in Calls :
          LET rec == calls[c]
          IN  /\ rec.pc \in {"ack_read", "ack_for", "resp_read", "done"} =>
                    Cardinality(OwnCommands(c, rec.callee)) = 1
              /\ rec.pc = "done" /\ loop[rec.callee].pc = "off" =>
                    /\ rec.resp.err_code = ATOM_COMMAND_NO_ACK
                    /\ rec.elapsed_time_ms >= rec.ack_timeout
                    /\ now >= rec.start_read + rec.ack_timeout
                    /\ Len(response) = 1 => rec.elapsed_time_ms = rec.ack_timeout
    /\ \A r \in Callees :
          Cardinality({i \in DOMAIN command[r] : "cmd" \in command[r][i].has}) =
              Cardinality({c \in Calls :
                  /\ calls[c].callee = r
                  /\ calls[c].pc \in {"ack_read", "ack_for", "resp_read", "done"}})

\* a call returned NO_ACK from a callee whose loop was never started, its
\* command frame still unread on command:<callee>
C15_Witness ==
    \E c \in Calls :
        /\ calls[c].pc = "done"
        /\ calls[c].resp.err_code = ATOM_COMMAND_NO_ACK
        /\ loop[calls[c].callee].pc = "off"
        /\ OwnCommands(c, calls[c].callee) # {}
        /\ command_last_id[calls[c].callee] = <<1, 0>>

----------------------------------------------------------------------------
\* C16: discovery follows the lifecycle of an element: get_all_elements()
\* includes an element that is constructed and not torn down, and does not
\* include an element that was torn down.
C16_DiscoveryFollowsLifecycle ==
    \A e \in Elements : (e \in GetAllElements) <=> alive[e]

----------------------------------------------------------------------------
----------------------------------------------------------------------------
\* C18: write/read round trip: after a successful entry_write that returned
\* id X, an entry_read_n of 1 with the same codec tag and no write in between
\* returns exactly one entry, whose id is X, the id of the appended entry, and
\* whose value for each written field equals the written value.
C18_RoundTrip ==
    (/\ got.op = "read_n" /\ got.n = 1
     /\ got.after.status = "ok" /\ got.tag = got.after.tag) =>
        /\ Len(got.result) = 1
        /\ got.result[1].id = got.after.id
        /\ got.after.id = entries[Len(entries)].id
        /\ \A kv \in got.after.fields : kv \in got.result[1].fields

\* C18 (amended): the same round trip returns exactly one entry whose id is
\* X, the id of the appended entry; a written bytes value under tag "none"
\* and a written integer under tag "msgpack" come back equal to what was
\* written, and an integer written under tag "none" comes back as the bytes
\* of its decimal text.
C18_RoundTripOfCodec ==
    (/\ got.op = "read_n" /\ got.n = 1
     /\ got.after.status = "ok" /\ got.tag = got.after.tag) =>
        /\ Len(got.result) = 1
        /\ got.result[1].id = got.after.id
        /\ got.after.id = entries[Len(entries)].id
        /\ \A kv \in got.after.fields :
              /\ (kv[2] = Bytes9 /\ got.tag = "none") => kv \in got.result[1].fields
              /\ (kv[2] = Int9 /\ got.tag = "msgpack") => kv \in got.result[1].fields
              /\ (kv[2] = Int9 /\ got.tag = "none") =>
                    /\ <<kv[1], Bytes9>> \in got.result[1].fields
                    /\ kv \notin got.result[1].fields

\* an integer written with msgpack was read back as that integer from a
\* stream that holds older entries
C18_Witness ==
    /\ got.op = "read_n" /\ got.n = 1
    /\ got.after.status = "ok" /\ got.after.tag = "msgpack" /\ got.tag = "msgpack"
    /\ got.after.before > 0
    /\ Len(got.result) = 1
    /\ <<"x", Int9>> \in got.result[1].fields

----------------------------------------------------------------------------
\* C19: entry_read_n(element, stream, n) returns the min(n, length of the
\* stream) most recent entries, newest first: the ids are strictly
\* decreasing, the first result is the last entry written, and no entry
\* older than the n-th most recent is returned.
C19_ReadNMostRecent ==
    got.op = "read_n" =>
        /\ Len(got.result) = IF got.n < Len(entries) THEN got.n ELSE Len(entries)
        /\ \A i \in DOMAIN got.result :
              got.result[i].id = entries[Len(entries) - i + 1].id
        /\ \A i, j \in DOMAIN got.result :
              i < j => IdGreater(got.result[i].id, got.result[j].id)
        /\ (entries # <<>>) => got.result[1].id = entries[Len(entries)].id

\* two of three entries were read, written in different milliseconds
C19_Witness ==
    /\ got.op = "read_n" /\ got.n = 2
    /\ Len(entries) = 3
    /\ Len(got.result) = 2
    /\ got.result[1].id[1] > got.result[2].id[1]
    /\ got.result[2].id = entries[2].id

----------------------------------------------------------------------------
\* C20: entry_read_since with an explicit last_id returns, in ascending id
\* order, the entries whose id is strictly greater than last_id: all of them
\* when n is None, exactly the n earliest of them when n is given and at
\* least n exist; with last_id "0" it returns the stream from its beginning.
C20_ReadSince ==
    got.op = "read_since" =>
        LET newer == SelectSeq(entries, LAMBDA e : IdGreater(e.id, got.last_id))
        IN  /\ \A i \in DOMAIN got.result : IdGreater(got.result[i].id, got.last_id)
            /\ \A i, j \in DOMAIN got.result :
                  i < j => IdGreater(got.result[j].id, got.result[i].id)
            /\ got.n = None =>
                  /\ Len(got.result) = Len(newer)
                  /\ \A i \in DOMAIN newer : got.result[i].id = newer[i].id
            /\ (got.n # None /\ Len(newer) >= got.n) =>
                  /\ Len(got.result) = got.n
                  /\ \A i \in 1..got.n : got.result[i].id = newer[i].id
            /\ (got.last_id = <<0, 0>> /\ got.n = None) =>
                  /\ Len(got.result) = Len(entries)
                  /\ \A i \in DOMAIN entries : got.result[i].id = entries[i].id

\* one entry was read from a cursor on the first of three entries: the entry
\* at the cursor is left out and so is the newest
C20_Witness ==
    /\ got.op = "read_since" /\ got.n = 1
    /\ Len(entries) = 3
    /\ got.last_id = entries[1].id
    /\ Len(got.result) = 1
    /\ got.result[1].id = entries[2].id

----------------------------------------------------------------------------
\* the handler calls made for one stream, in the order made
DispatchedOf(stream) == SelectSeq(rl.dispatched, LAMBDA d : d.stream = stream)

\* C21: fan-in completeness of entry_read_loop: every entry appended to a
\* subscribed stream after the loop took its cursors is dispatched (it has
\* been once the loop has nothing left to read), to the handler of exactly
\* that stream, with its id, and the entries of one stream are dispatched in
\* increasing id order with no gaps.
C21_FanInComplete ==
    /\ \A i \in DOMAIN rl.dispatched :
          rl.dispatched[i].handler = StreamHandlerMap(rl.dispatched[i].stream)
    /\ \A f \in Feeds :
          LET own == DispatchedOf(f)
          IN  /\ \A i \in DOMAIN own : own[i].id = feeds[f][rl.base[f] + i].id
              /\ rl.pc = "blocked" => Len(own) = Len(feeds[f]) - rl.base[f]

----------------------------------------------------------------------------
\* C22: within one entry_read_loop call the cursor sent for a stream in a
\* read is the id of the last entry already delivered from that stream, and
\* no entry is dispatched to a handler more than once.
C22_CursorAdvances ==
    /\ \A i \in DOMAIN rl.sent :
          rl.last_at_read[rl.sent[i].stream] # NoId =>
              rl.sent[i].id = rl.last_at_read[rl.sent[i].stream]
    /\ \A i, j \in DOMAIN rl.dispatched :
          (/\ i < j
           /\ rl.dispatched[i].stream = rl.dispatched[j].stream) =>
              rl.dispatched[i].id # rl.dispatched[j].id

----------------------------------------------------------------------------
\* C23: a legacy boolean alone maps to a tag (true to "msgpack", false to no
\* codec), and an operation given both a tag and a legacy boolean uses the
\* codec named by the tag.
C23_TagWins ==
    /\ sel.op \in WriteOps =>
          /\ (sel.serialization = "None" /\ sel.legacy = "true") => sel.used = "msgpack"
          /\ (sel.serialization = "None" /\ sel.legacy = "false") => sel.used = "None"
          /\ (sel.serialization # "None" /\ sel.legacy # "unset") =>
                sel.used = sel.serialization
    /\ (sel.op = "read" /\ sel.ser_key = "absent") =>
          /\ (sel.serialization = "None" /\ sel.deserialize = "true" /\ ~sel.force) =>
                sel.used = "msgpack"
          /\ (sel.serialization # "None" /\ sel.deserialize # "unset") =>
                sel.used = sel.serialization

----------------------------------------------------------------------------
\* the keys reference_create returned: one per value, in argument order, each
\* reference:<owner>:<uuid>:ser:<tag>, holding the value given
CreatedKeysInOrder ==
    ref_out.op = "create" =>
        /\ ref_out.status = "ok"
        /\ Len(ref_out.result) = ref_out.made
        /\ \A i \in DOMAIN ref_out.result :
              /\ ref_out.result[i].owner = RefOwner
              /\ ref_out.result[i].field = ""
              /\ ref_out.result[i] = RefKey(ref_out.result[i].uuid)
              /\ \A j \in DOMAIN ref_out.result :
                    i < j => ref_out.result[i].uuid # ref_out.result[j].uuid

\* a key of reference_create with a timeout that was not extended
Plain(u) ==
    /\ refs[u].present /\ refs[u].field = ""
    /\ refs[u].timeout_ms > 0 /\ ~refs[u].extended

\* the result of reference_get has one item per key, None for a key that
\* holds nothing and for a key whose timeout has passed
GetInOrderOrNone ==
    (ref_out.op = "get" /\ now = ref_out.at) =>
        /\ Len(ref_out.result) = Len(ref_out.uuids)
        /\ \A i \in DOMAIN ref_out.uuids :
              LET u == ref_out.uuids[i]
              IN  /\ ~refs[u].present => ref_out.result[i] = NoneValue
                  /\ (Plain(u) /\ now - refs[u].created > refs[u].timeout_ms) =>
                        ref_out.result[i] = NoneValue

\* C24: reference round trip with expiry: reference_create with t > 0
\* returns one key per value, in argument order, of the form
\* reference:<owner>:<uuid>:ser:<tag>; reference_get of such a key returns
\* the value before t ms have elapsed and None after t ms have elapsed; the
\* result of reference_get has one item per key in the same order, None for
\* a missing key.
C24_ReferenceRoundTrip ==
    /\ CreatedKeysInOrder
    /\ GetInOrderOrNone
    /\ (ref_out.op = "get" /\ now = ref_out.at /\ ~ref_out.force) =>
          \A i \in DOMAIN ref_out.uuids :
              LET u == ref_out.uuids[i]
              IN  (Plain(u) /\ now - refs[u].created < refs[u].timeout_ms) =>
                      ref_out.result[i] = refs[u].orig

\* C24 (amended): as C24, the value returned before t ms have elapsed being
\* the value written when that is a bytes value under tag "none" or an
\* integer under tag "msgpack"; an integer written under tag "none" is
\* returned as the bytes of its decimal text.
C24_ReferenceRoundTripOfCodec ==
    /\ CreatedKeysInOrder
    /\ GetInOrderOrNone
    /\ (ref_out.op = "get" /\ now = ref_out.at /\ ~ref_out.force) =>
          \A i \in DOMAIN ref_out.uuids :
              LET u == ref_out.uuids[i]
              IN  (Plain(u) /\ now - refs[u].created < refs[u].timeout_ms) =>
                      /\ (refs[u].orig = Bytes9 /\ refs[u].ser = "none") =>
                            ref_out.result[i] = Bytes9
                      /\ (refs[u].orig = Int9 /\ refs[u].ser = "msgpack") =>
                            ref_out.result[i] = Int9
                      /\ (refs[u].orig = Int9 /\ refs[u].ser = "none") =>
                            ref_out.result[i] = Bytes9

\* one reference_get returned the value of a key within its timeout and None
\* for a key whose timeout has passed
C24_Witness ==
    /\ ref_out.op = "get" /\ now = ref_out.at /\ ~ref_out.force
    /\ Len(ref_out.uuids) = 2
    /\ Plain(ref_out.uuids[1]) /\ Plain(ref_out.uuids[2])
    /\ now - refs[ref_out.uuids[1]].created < refs[ref_out.uuids[1]].timeout_ms
    /\ now - refs[ref_out.uuids[2]].created > refs[ref_out.uuids[2]].timeout_ms
    /\ ref_out.result = <<Bytes9, NoneValue>>

----------------------------------------------------------------------------
\* C25: for every existing reference key, with a TTL or without one,
\* reference_update_timeout_ms(key, t) succeeds; with t <= 0 a following
\* reference_get_timeout_ms(key) returns -1, and with t > 0 the remaining
\* TTL is t.
C25_UpdateTimeout ==
    (/\ ref_out.op = "update_timeout" /\ now = ref_out.at
     /\ ref_out.existed[1]) =>
        /\ ref_out.status = "ok"
        /\ (ref_out.timeout_ms <= 0) => (Pttl(refs, ref_out.uuids[1]) = -1)
        /\ (ref_out.timeout_ms > 0) =>
              (Pttl(refs, ref_out.uuids[1]) = ref_out.timeout_ms)

----------------------------------------------------------------------------
\* C26: reference_delete(k1..kn) raises KeyError if and only if at least one
\* of the given keys does not exist at the time of the call; when all exist
\* it returns normally and none of the keys exists afterwards.
C26_DeleteRaisesIffMissing ==
    (ref_out.op = "delete" /\ now = ref_out.at) =>
        /\ ref_out.status = "KeyError" <=>
              \E i \in DOMAIN ref_out.uuids : ~ref_out.existed[i]
        /\ ref_out.status = "ok" =>
              \A i \in DOMAIN ref_out.uuids : ~KeyExists(refs, ref_out.uuids[i])

\* C26 (amended): for pairwise distinct keys reference_delete raises KeyError
\* if and only if at least one of them does not exist at the time of the
\* call; when all exist it returns normally; a call that names a key twice
\* raises KeyError; none of the keys exists afterwards, whether it raised or
\* not.
C26_DeleteOfDistinctKeys ==
    (ref_out.op = "delete" /\ now = ref_out.at) =>
        LET distinct == \A i, j \in DOMAIN ref_out.uuids :
                            i # j => ref_out.uuids[i] # ref_out.uuids[j]
        IN  /\ distinct =>
                  (ref_out.status = "KeyError" <=>
                      \E i \in DOMAIN ref_out.uuids : ~ref_out.existed[i])
            /\ ~distinct => ref_out.status = "KeyError"
            /\ ref_out.status \in {"ok", "KeyError"}
            /\ \A i \in DOMAIN ref_out.uuids : ~KeyExists(refs, ref_out.uuids[i])

\* two existing keys were deleted in one call, which returned normally
C26_Witness ==
    /\ ref_out.op = "delete" /\ now = ref_out.at
    /\ Len(ref_out.uuids) = 2 /\ ref_out.uuids[1] # ref_out.uuids[2]
    /\ ref_out.existed = <<TRUE, TRUE>>
    /\ ref_out.status = "ok"

----------------------------------------------------------------------------
----------------------------------------------------------------------------
\* the element passed the round: its version probe succeeded and its
\* healthcheck returned err_code 0, or, in non-strict mode only, its version
\* probe failed
PassedRound(e) ==
    /\ hw.seen[e].probed
    /\ \/ hw.seen[e].version_ok /\ hw.seen[e].hc_sent
          /\ hw.seen[e].hc_err = ATOM_NO_ERROR
       \/ ~hw.strict /\ ~hw.seen[e].version_ok

\* the element failed the round
FailedRound(e) ==
    /\ hw.seen[e].probed
    /\ \/ hw.strict /\ ~hw.seen[e].version_ok
       \/ hw.seen[e].hc_sent /\ hw.seen[e].hc_err # ATOM_NO_ERROR

\* the wait returns only at the end of a round that every element passed; a
\* round stops at the first element that fails; a later round begins a
\* retry interval or more after the sleep began
HealthRounds ==
    /\ hw.pc = "returned" =>
          \A i \in DOMAIN HealthNames : PassedRound(HealthNames[i])
    /\ hw.pc = "sleep" =>
          /\ FailedRound(HealthNames[hw.idx])
          /\ \A i \in DOMAIN HealthNames :
                /\ i < hw.idx => PassedRound(HealthNames[i])
                /\ i > hw.idx => ~hw.seen[HealthNames[i]].probed
    /\ (hw.round > 1 /\ hw.pc # "sleep") =>
          hw.began >= hw.slept_at + RetryIntervalMs

\* C28: wait_for_elements_healthy returns only at the end of a round in
\* which every listed element passed; a round stops at the first element
\* that fails and the next round starts after sleeping the retry interval;
\* if eventually all listed elements stay healthy the call eventually
\* returns.
C28_HealthWait ==
    /\ []HealthRounds
    /\ (/\ health.settled
        /\ hw.pc \in {"version", "healthcheck", "sleep"}
        /\ hw.pc = "sleep" => hw.wake <= MaxTime) ~> (hw.pc = "returned")

\* a strict wait returned in its second round, after a round that failed
C28_Witness ==
    /\ hw.pc = "returned" /\ hw.strict /\ hw.round = 2
    /\ \A e \in Callees : hw.seen[e].version_ok /\ hw.seen[e].hc_err = 0
    /\ hw.began >= 1 + RetryIntervalMs

----------------------------------------------------------------------------
\* C29: a strict wait does not return while a listed element is unreachable
\* or of an unsupported language or version; a non-strict wait passes such
\* an element over without sending it a healthcheck, and returns in the
\* first round when no listed element is alive; an element whose healthcheck
\* handler returns a non-zero code keeps the wait from returning in both
\* modes.
C29_Strictness ==
    /\ hw.pc = "returned" =>
          \A e \in Callees :
              /\ hw.strict => hw.seen[e].version_ok
              /\ ~hw.seen[e].version_ok => ~hw.seen[e].hc_sent
              /\ hw.seen[e].hc_sent => hw.seen[e].hc_code = 0
    /\ (hw.pc = "sleep" /\ ~hw.strict) => hw.seen[HealthNames[hw.idx]].version_ok
    /\ (/\ ~hw.strict /\ hw.round = 1
        /\ \A e \in Callees : hw.seen[e].probed /\ ~hw.seen[e].version_ok) =>
          hw.pc = "returned"

----------------------------------------------------------------------------
\* C30: after construction and after any sequence of command_add and
\* healthcheck_set calls, rejected ones included, the handler table holds
\* healthcheck, version and command_list; command_add with a reserved name
\* raises and leaves the handler table and the timeout table as they were;
\* healthcheck_set replaces only the healthcheck handler; the reply of
\* command_list is exactly the registered names that are not reserved.
C30_HandlerTable ==
    /\ \A n \in {"healthcheck", "version", "command_list"} :
          handler_map[n].handler # "absent"
    /\ (hm_out.op = "command_add"
          /\ hm_out.name \in {"healthcheck", "version", "command_list"}) =>
          /\ hm_out.status \in {"TypeError", "ValueError"}
          /\ handler_map = hm_out.before_map
          /\ timeouts = hm_out.before_timeouts
    /\ (hm_out.op = "healthcheck_set" /\ hm_out.status = "ok") =>
          /\ handler_map["healthcheck"].handler = hm_out.handler
          /\ \A n \in AddNames \ {"healthcheck"} :
                handler_map[n] = hm_out.before_map[n]
          /\ timeouts = hm_out.before_timeouts
    /\ hm_out.op = "command_list" =>
          hm_out.reply = hm_out.added \ {"healthcheck", "version", "command_list"}

\* a command_add of a reserved name with a callable handler was rejected on
\* a table that holds a user command and an overridden healthcheck
C30_Witness ==
    /\ hm_out.op = "command_add" /\ hm_out.name = "version"
    /\ hm_out.handler = "h1" /\ hm_out.status = "ValueError"
    /\ handler_map["add_1"].handler = "h1"
    /\ handler_map["healthcheck"].handler = "h2"
    /\ timeouts["add_1"] = 500

----------------------------------------------------------------------------
\* C31: the published-streams set always equals the set of the stream names
\* written with entry_write and not yet removed with clean_up_stream;
\* clean_up_stream(s) deletes stream:<E>:s and removes s from the set, and
\* raises without effect when s is not in the set; after teardown none of
\* response:<E>, command:<E> and stream:<E>:s for s in the set exists.
C31_TeardownRemovesPublished ==
    /\ ~pub.deleted => pub.streams = pub.wrote
    /\ (pub_out.op = "clean_up_stream" /\ pub_out.stream \in pub_out.before.streams) =>
          /\ pub_out.status = "ok"
          /\ pub.published[pub_out.stream] = 0
          /\ pub_out.stream \notin pub.streams
    /\ (pub_out.op = "clean_up_stream" /\ pub_out.stream \notin pub_out.before.streams) =>
          /\ pub_out.status = "Exception"
          /\ pub = pub_out.before
    /\ pub.deleted =>
          /\ pub.own = {}
          /\ \A s \in pub_out.before.streams : pub.published[s] = 0

----------------------------------------------------------------------------
\* C37: an entry_write rejected for a reserved key appends nothing to the
\* stream, leaves no pipeline held and does not add stream_name to the
\* published-streams set.
C37_RejectedWriteHasNoEffect ==
    (pub_out.op = "entry_write" /\ pub_out.status = "ValueError") =>
        /\ pub.published = pub_out.before.published
        /\ pub_out.held = 0
        /\ pub.streams = pub_out.before.streams

----------------------------------------------------------------------------
\* C32: once command_loop_shutdown() has set the stop flag, the command loop
\* returns after finishing at most the one iteration in progress: at most
\* one further entry is read and at most one further command is
\* acknowledged and dispatched, and a loop that has a step to take with the
\* flag set ends.
C32_LoopCancellable ==
    /\ [](\A r \in Callees :
            /\ loop[r].read_after <= 1
            /\ loop[r].acked_after <= 1
            /\ loop[r].read_after = 1 => loop[r].pc # "read")
    /\ \A r \in Callees :
          (shutdown[r] /\ LoopRunnable(r)) ~>
              (loop[r].pc \in {"exited", "raised", "handler"})

\* a loop returned after its flag was set while two commands were waiting:
\* it answered one of them and left the other unread
C32_Witness ==
    /\ shutdown["responder_0"] /\ loop["responder_0"].pc = "exited"
    /\ loop["responder_0"].acked_after = 1
    /\ XRead(command["responder_0"], command_last_id["responder_0"]) # <<>>

----------------------------------------------------------------------------
\* C33: naming is a bijection between logical names and keys: the ids are
\* command:E, response:E and stream:E:S; two different elements, or two
\* different (element, stream) pairs, never get the same key; and
\* get_all_elements() returns for each key response:E exactly the name E.
C33_NamingBijection ==
    naming.op = "make" =>
        /\ naming.command_id = <<"command", ":">> \o naming.element
        /\ naming.response_id = <<"response", ":">> \o naming.element
        /\ naming.stream_id =
              <<"stream", ":">> \o naming.element \o <<":">> \o naming.stream
        /\ naming.element # naming.element_2 =>
              /\ naming.command_id # naming.command_id_2
              /\ naming.response_id # naming.response_id_2
        /\ <<naming.element, naming.stream>> # <<naming.element_2, naming.stream_2>> =>
              naming.stream_id # naming.stream_id_2
        /\ naming.all_elements = {naming.element, naming.element_2}

----------------------------------------------------------------------------
\* C34: command_send called with ack_timeout 0 returns err_code 3 (NO_ACK)
\* without completing any iteration of the read loop on the response
\* stream, whatever the callee does and whatever entries response:<self>
\* holds: it never examines an entry, never reaches the response wait and
\* never returns another code.
C34_ZeroAckTimeout ==
    \A c \in Calls :
        calls[c].ack_timeout = 0 =>
            /\ calls[c].pc \notin {"ack_for", "resp_read"}
            /\ calls[c].pc = "done" => calls[c].resp.err_code = ATOM_COMMAND_NO_ACK

----------------------------------------------------------------------------
\* C35: the codec used to decode an entry or a reference key depends only on
\* that item and on the arguments of the call: it is the caller's tag when
\* force is set, else the item's own ser tag when it has one, else the
\* caller's tag; the ser tag of an item processed earlier in the same call
\* has no influence.  (Stated for calls without the legacy flag.)
C35_CodecPerEntry ==
    (dec.op # "none" /\ dec.deserialize = "unset") =>
        /\ Len(dec.used) = Len(dec.keys)
        /\ \A i \in DOMAIN dec.keys :
              dec.used[i] = IF dec.force THEN dec.serialization
                            ELSE IF dec.keys[i] # "absent" THEN dec.keys[i]
                            ELSE dec.serialization

----------------------------------------------------------------------------
\* the id of the discovery sentinel of command:<r>
CommandSentinelId(r) ==
    command[r][CHOOSE i \in DOMAIN command[r] :
                  command[r][i].has = {"language", "version"}].id

\* C36: command_last_id starts at the id of the element's own sentinel, is
\* set to the id of each entry the loop reads before the entry is examined,
\* and only increases; every entry of command:<self> is handed to a handler
\* at most once (it has at most one acknowledge), an entry appended before
\* the element was constructed is never dispatched, and an iteration that
\* failed is not retried.
C36_DispatchedAtMostOnce ==
    /\ [](\A r \in Callees :
            /\ \E i \in DOMAIN command[r] : command[r][i].id = command_last_id[r]
            /\ ~IdGreater(CommandSentinelId(r), command_last_id[r])
            /\ loop[r].pc \in {"dispatch", "handler", "raised"} =>
                  loop[r].cmd_id = command_last_id[r]
            /\ \A i \in DOMAIN command[r] :
                  /\ Cardinality(AcksOf(r, command[r][i].id)) <= 1
                  /\ ~IdGreater(command[r][i].id, CommandSentinelId(r)) =>
                        /\ AcksOf(r, command[r][i].id) = {}
                        /\ command[r][i].id \notin loop[r].invoked
            /\ \A id \in loop[r].invoked : ~IdGreater(id, command_last_id[r]))
    /\ [][\A r \in Callees :
            /\ ~IdGreater(command_last_id[r], command_last_id'[r])
            /\ loop[r].invoked \subseteq loop'[r].invoked
            /\ loop'[r].invoked \ loop[r].invoked \subseteq {command_last_id'[r]}
            /\ loop[r].pc = "raised" => command_last_id'[r] = command_last_id[r]]_vars

\* the loop of an element that found a command at its construction has
\* answered one later command, its handler has raised on a second, and the
\* cursor is at the second
C36_Witness ==
    /\ Len(command["responder_0"]) = 4
    /\ command["responder_0"][1].has = {"element", "cmd", "data"}
    /\ loop["responder_0"].pc = "raised"
    /\ Cardinality(loop["responder_0"].invoked) = 2
    /\ command_last_id["responder_0"] = command["responder_0"][4].id

----------------------------------------------------------------------------
\* the id of the last entry appended to response:<caller>
LastResponseId == response[Len(response)].id

\* C39: response_last_id is the id of the caller's own sentinel or the id of
\* an entry of response:<caller> that a command_send has read, and is never
\* greater than the id of the last entry appended; hence the cursor a call
\* starts from is smaller than the id of every frame appended afterwards.
C39_ResponseCursorIsReadEntry ==
    /\ [](/\ \E i \in DOMAIN response : response[i].id = response_last_id
          /\ ~IdGreater(response_last_id, LastResponseId)
          /\ \A c \in Calls :
                calls[c].pc # "idle" => ~IdGreater(calls[c].local_last_id, LastResponseId))
    /\ [][/\ response_last_id' # response_last_id =>
              \E c \in Calls, i \in DOMAIN response :
                 /\ calls[c].pc \in {"ack_for", "resp_read"}
                 /\ response[i].id = response_last_id'
                 /\ IdGreater(response[i].id, calls[c].local_last_id)
                 /\ calls'[c].local_last_id = response[i].id
          /\ \A c \in Calls :
                calls[c].pc = "idle" /\ calls'[c].pc # "idle" =>
                   calls'[c].local_last_id = response_last_id
          /\ \A i \in DOMAIN response' :
                i > Len(response) =>
                   /\ IdGreater(response'[i].id, response_last_id)
                   /\ \A c \in Calls :
                         calls[c].pc # "idle" =>
                            IdGreater(response'[i].id, calls[c].local_last_id)]_vars

\* the shared cursor has moved to an entry a call has read, and a second call
\* has started from it while a frame was appended after it
C39_Witness ==
    /\ response_last_id # response[1].id
    /\ IdGreater(LastResponseId, response_last_id)
    /\ \E c \in Calls :
          /\ calls[c].pc \in {"ack_read", "ack_for", "resp_read"}
          /\ IdGreater(calls[c].local_last_id, response[1].id)
          /\ IdGreater(LastResponseId, calls[c].local_last_id)

----------------------------------------------------------------------------
\* command_send of thread c has returned NO_ACK or NO_RESPONSE
TimedOut(c) ==
    /\ calls[c].pc = "done"
    /\ calls[c].resp.err_code \in {ATOM_COMMAND_NO_ACK, ATOM_COMMAND_NO_RESPONSE}

\* the command of a call that timed out is still on command:<callee>, and has
\* at most one acknowledge and one response
LateFramesKept ==
    \A c \in Calls :
       TimedOut(c) =>
          /\ \E i \in DOMAIN command[calls[c].callee] :
                /\ command[calls[c].callee][i].id = calls[c].cmd_id
                /\ command[calls[c].callee][i].cmd = calls[c].cmd
          /\ Cardinality(OwnAcks(c)) <= 1
          /\ Cardinality(OwnResponses(c)) <= 1

\* a call leaves its acknowledge wait with a timeout only on its own
\* acknowledge, and returns something else than NO_ACK and NO_RESPONSE only on
\* its own response
LateFramesIgnored ==
    \A d \in Calls :
       /\ (calls[d].timeout = None /\ calls'[d].timeout # None) =>
             \E i \in OwnAcks(d) : response[i].id = calls'[d].local_last_id
       /\ (calls[d].pc # "done" /\ calls'[d].pc = "done" /\ ~TimedOut(d)') =>
             \E i \in OwnResponses(d) :
                /\ response[i].id = calls'[d].local_last_id
                /\ response[i].err_code = calls'[d].resp.err_code
                /\ response[i].data = calls'[d].resp.data

\* the loop of the callee has read and acknowledged the command of call c,
\* which has timed out
LateDispatch(c) ==
    /\ TimedOut(c)
    /\ loop[calls[c].callee].pc = "dispatch"
    /\ loop[calls[c].callee].cmd_id = calls[c].cmd_id

\* the command of call c has its acknowledge and its response, and its
\* handler, if it has one, was invoked
LateAnswered(c) ==
    /\ TimedOut(c)
    /\ OwnAcks(c) # {}
    /\ OwnResponses(c) # {}
    /\ calls[c].cmd \in HandlerNames(calls[c].callee) =>
          calls[c].cmd_id \in loop[calls[c].callee].invoked

\* C40: a command outlives the timeout of its caller: after command_send
\* returned NO_ACK or NO_RESPONSE the command frame stays on
\* command:<callee>, a loop of the callee that gets to it later acknowledges
\* it, invokes its handler once and appends its response to
\* response:<caller>, and these late frames neither are returned by nor end
\* the wait of another command_send of the caller.
C40_CommandOutlivesCaller ==
    /\ []LateFramesKept
    /\ [][LateFramesIgnored]_vars
    /\ \A c \in Calls : LateDispatch(c) ~> LateAnswered(c)

----------------------------------------------------------------------------
\* pipelines the command_loop thread holds
LoopHolds ==
    CASE pq.loop \in {"acked", "get_log", "respond"} -> 1
      [] pq.loop = "log" -> 2
      [] OTHER -> 0

\* every thread that uses the pool is blocked in get()
AllBlocked ==
    /\ ~QueueReady(pq.free)
    /\ pq.hold = 0
    /\ pq.me # "hold"
    /\ pq.loop \notin {"acked", "log", "respond"}
    /\ pq.wait > 0 \/ pq.me = "wait" \/ pq.loop \in {"get_ack", "get_log"}

====
